---- MODULE Spec2Model ----
(***************************************************************************)
(* Verification model of the meeting-protocol segmentation scripts.        *)
(*                                                                         *)
(*  SpecSequential : scripts/old/llm_protocol_generator_sequential.py      *)
(*                   generate_protocol / find_top_boundaries /             *)
(*                   find_single_boundary with its checkpoint files        *)
(*  SpecModerator  : scripts/moderator_segmentation_70B.py                 *)
(*                   segment_by_moderator (reconciliation of the segments  *)
(*                   the model returned)                                   *)
(*  SpecRecover    : scripts/moderator_segmentation_70B.py                 *)
(*                   extract_json_from_response                            *)
(*  SpecInterruptible : generate_protocol with runs that can be interrupted *)
(*                   while a request is in flight                          *)
(*  SpecLoader     : the four transcript loaders (minutes_generator.py,    *)
(*                   extract_moderator_transcript.py, segment_transcript.py *)
(*                   and the sequential generator)                         *)
(*  SpecMerge      : combine_consecutive_speakers and the merge loop of    *)
(*                   app/backend/transcribe.py                             *)
(*  SpecChunk      : scripts/segment_transcript.py create_chunks           *)
(*  SpecAssign     : scripts/segment_transcript.py assign_topics           *)
(*  SpecSmooth     : scripts/segment_transcript.py smooth_assignments      *)
(*  SpecJobs       : app/backend/main.py, the jobs map under uploads,      *)
(*                   cleanup_old_jobs and run_transcription tasks          *)
(*                                                                         *)
(* Python lists are sequences; a Python index k is position k + 1 here.    *)
(* A Python dict is a sequence of entries in insertion order (DictSet).    *)
(***************************************************************************)
EXTENDS Integers, Sequences, FiniteSets, TLC

VARIABLES
    \* ---- sequential pipeline: files and configuration
    topicsFile,          \* labels of the topics file, one per non-blank line
    transcriptFile,      \* lines of the raw transcript file
    max_context_tokens,  \* self.max_context_tokens
    combinedFile,        \* combined-utterances checkpoint (NoFile when absent)
    boundariesFile,      \* boundaries checkpoint (NoFile when absent)
    \* ---- sequential pipeline: one run of generate_protocol
    pc,                  \* "idle" | "search" | "awaiting"
    tops,                \* tops loaded by the run
    combined,            \* combined utterances held by the run
    boundaries,          \* the dict find_top_boundaries is filling
    current_start,       \* the cursor
    step,                \* loop variable i of find_top_boundaries
    window,              \* window assembled for the request in flight
    \* ---- sequential pipeline: observations of the run
    runs,                \* runs of generate_protocol started so far
    calls,               \* external model requests issued by the run
    parses,              \* load_transcript calls made by the run
    writes,              \* checkpoint files written by the run
    atStart,             \* checkpoint files as they were when the run started
    cursors,             \* the cursor each search step of the run started from
    lastStep,            \* what the last finished search step saw and returned
    outcome,             \* how the last run ended, and the map it produced
    \* ---- moderator segmentation
    modTops,             \* tops given to segment_by_moderator
    modResponse,         \* what the model answered to the single request
    modResult,           \* returned dict (NoResult before the call)
    \* ---- response recovery
    response_text,       \* argument of extract_json_from_response
    recResult,           \* its result (NoResult before the call)
    \* ---- transcript loaders
    transcript_lines,    \* the lines of the transcript file, stripped
    full_utterances,     \* result of MinutesGenerator.load_full_transcript
    moderator_utterances,\* result of extract_moderator_with_indices
    seq_utterances,      \* result of SequentialProtocolGenerator.load_transcript
    seg_utterances,      \* result of TranscriptSegmenter.load_transcript
    \* ---- same-speaker merging
    utterances_in,       \* argument of combine_consecutive_speakers
    segments_in,         \* result["segments"] in transcribe_audio
    merged,              \* combine_consecutive_speakers(utterances_in)
    remerged,            \* combine_consecutive_speakers applied to merged
    transcript,          \* the transcript list built by transcribe_audio
    \* ---- embedding path: chunk builder
    n_utterances,        \* len(utterances) given to create_chunks
    chunk_size,          \* chunk_size
    overlap,             \* overlap
    chunks_out,          \* result of create_chunks (NoResult before the call)
    \* ---- embedding path: topic assigner
    similarities,        \* util.cos_sim(...): one row of scores per chunk
    assignments_out,     \* result of assign_topics
    \* ---- embedding path: temporal smoother
    raw_assignments,     \* assignments given to smooth_assignments
    window_size,         \* window_size
    min_segment_length,  \* min_segment_length
    smoothed_out,        \* result of smooth_assignments
    \* ---- transcription jobs of the backend
    jobs,                \* the jobs OrderedDict, oldest entry first
    job_max_count,       \* JOB_MAX_COUNT as configured
    now,                 \* time.time()
    uploads,             \* upload requests handled so far
    tasks,               \* where each background run_transcription task is
    statusLog,           \* the statuses each job record has held, in order
    transcribed,         \* jobs whose transcribe_audio call returned
    keyErrors            \* jobs whose task met a KeyError on jobs[job_id]

vars == << topicsFile, transcriptFile, max_context_tokens, combinedFile,
           boundariesFile, pc, tops, combined, boundaries, current_start, step,
           window, runs, calls, parses, writes, atStart, cursors, lastStep,
           outcome,
           modTops, modResponse, modResult, response_text, recResult,
           transcript_lines, full_utterances, moderator_utterances, seq_utterances,
           seg_utterances,
           utterances_in, segments_in, merged, remerged, transcript,
           n_utterances, chunk_size, overlap, chunks_out,
           similarities, assignments_out,
           raw_assignments, window_size, min_segment_length, smoothed_out,
           jobs, job_max_count, now, uploads, tasks, statusLog, transcribed,
           keyErrors >>

seqVars == << topicsFile, transcriptFile, max_context_tokens, combinedFile,
              boundariesFile, pc, tops, combined, boundaries, current_start,
              step, window, runs, calls, parses, writes, atStart, cursors,
              lastStep, outcome >>

modVars == << modTops, modResponse, modResult >>

recVars == << response_text, recResult >>

loadVars == << transcript_lines, full_utterances, moderator_utterances, seq_utterances,
               seg_utterances >>

mergeVars == << utterances_in, segments_in, merged, remerged, transcript >>

chunkVars == << n_utterances, chunk_size, overlap, chunks_out >>

assignVars == << similarities, assignments_out >>

smoothVars == << raw_assignments, window_size, min_segment_length,
                 smoothed_out >>

jobVars == << jobs, job_max_count, now, uploads, tasks, statusLog, transcribed,
              keyErrors >>

----------------------------------------------------------------------------
(* Bounds of the model *)

\* longest topic list
MaxTops == 3
\* longest raw transcript, in lines
MaxLines == 3
\* runs of generate_protocol on the same files
MaxRuns == 2
\* longest topic list given to segment_by_moderator
MaxModTops == 2
\* most segments in one model response
MaxSegments == 2
\* most fragments a response text is made of
MaxFragments == 5
\* longest utterance or segment list given to the same-speaker merge
MaxUtterances == 3

\* most utterances given to create_chunks
MaxChunkInput == 7
\* largest chunk_size
MaxChunkSize == 5
\* most chunks scored by assign_topics
MaxScoredChunks == 3
\* most topics scored by assign_topics
MaxScoredTopics == 2
\* longest assignment sequence given to smooth_assignments
MaxAssignments == 4
\* number of topic values in that sequence
MaxTopicValues == 3
\* largest min_segment_length
MaxMinRun == 3
\* most upload requests
MaxUploads == 2
\* most times the clock moves on
MaxTicks == 2
\* JOB_MAX_COUNT when the environment does not set it
DefaultJobMaxCount == 100
\* JOB_MAX_AGE_SECONDS when the environment does not set it
DefaultJobMaxAgeSeconds == 7200

----------------------------------------------------------------------------
(* Generic helpers *)

Min(a, b) == IF a < b THEN a ELSE b

Max(a, b) == IF a > b THEN a ELSE b

MaxOf(S) == IF S = {} THEN 0 ELSE CHOOSE m \in S : \A x \in S : x <= m

SeqsUpTo(S, n) == UNION { [1..k -> S] : k \in 0..n }

\* A file that does not exist, and a file holding content c.
NoFile == [exists |-> FALSE, content |-> << >>]

File(c) == [exists |-> TRUE, content |-> c]

\* No value returned yet, a returned value, a raised exception.
NoResult == [status |-> "none", value |-> << >>]

Returned(v) == [status |-> "returned", value |-> v]

Raised == [status |-> "raised", value |-> << >>]

\* Number of decimal digits of a natural number: len(str(n)).
RECURSIVE Digits(_)
Digits(n) == IF n < 10 THEN 1 ELSE 1 + Digits(n \div 10)

----------------------------------------------------------------------------
(* Python dict keyed by topic label, in insertion order *)

DictHas(d, k) == \E j \in 1..Len(d) : d[j].top = k

\* d[k] = v : an existing key keeps its position and takes the new value.
DictSet(d, k, v) ==
    IF DictHas(d, k)
    THEN [j \in 1..Len(d) |-> IF d[j].top = k THEN v ELSE d[j]]
    ELSE Append(d, v)

DictKeys(d) == [j \in 1..Len(d) |-> d[j].top]

----------------------------------------------------------------------------
(* Inputs of the sequential pipeline *)

\* A text is a sequence of characters.
TextA == << "a" >>

TextZ == << "z" >>

\* Lines of a raw transcript, after line.strip(): a blank line, a line that
\* matches [SPEAKER_(\d+)]:\s*(.+), or a non-blank line that does not.
BlankLine == [kind |-> "blank", speaker |-> 0, text |-> << >>]

TextLine == [kind |-> "text", speaker |-> 0, text |-> TextZ]

TagLine(s) == [kind |-> "tag", speaker |-> s, text |-> TextA]

Speakers == {0, 1}

LineChoices == {BlankLine, TextLine} \cup { TagLine(s) : s \in Speakers }

Transcripts == SeqsUpTo(LineChoices, MaxLines)

\* Lines of a topics file: 0 is a blank line, k > 0 the label whose text is the
\* decimal numeral of k.  Labels are opaque, so only lists whose labels first
\* occur in increasing order are enumerated.
TopicsFiles ==
    { t \in SeqsUpTo(0..MaxTops, MaxTops) :
        \A j \in 1..Len(t) :
            t[j] <= 1 + MaxOf({ t[k] : k \in 1..(j - 1) }) }

LabelLen(top) == Digits(top)

\* len("SPEAKER_" + two-digit id)
SpeakerLen(s) == 8 + 2

\* self.max_context_tokens: the constructor's default, and two small contexts
\* that leave 15 and 7 tokens for the utterances (206 go to the base prompt
\* and 500 to the response), so that the window is cut.
DefaultMaxContextTokens == 40960

ContextChoices == { DefaultMaxContextTokens, 721, 713 }

----------------------------------------------------------------------------
(* SequentialProtocolGenerator: pure parts *)

estimate_tokens(nchars) == nchars \div 4

load_topics_from_file_unfiltered(lines) == lines

\* [line.strip() for line in f if line.strip()]
RECURSIVE load_topics_from_file(_)
load_topics_from_file(lines) ==
    IF lines = << >> THEN << >>
    ELSE (IF Head(lines) = 0 THEN << >> ELSE << Head(lines) >>)
             \o load_topics_from_file(Tail(lines))

\* Lines matching the speaker pattern become utterances; all others are skipped.
RECURSIVE LoadTranscriptFrom(_, _)
LoadTranscriptFrom(lines, n) ==
    IF n > Len(lines) THEN << >>
    ELSE (IF lines[n].kind = "tag" /\ lines[n].text # << >>
          THEN << [line_num |-> n, speaker |-> lines[n].speaker,
                   text |-> lines[n].text] >>
          ELSE << >>)
             \o LoadTranscriptFrom(lines, n + 1)

load_transcript(lines) == LoadTranscriptFrom(lines, 1)

RECURSIVE CombineLoopDropsLast(_, _, _)
CombineLoopDropsLast(rest, current, acc) ==
    IF rest = << >> THEN acc
    ELSE LET utt == Head(rest) IN
         IF utt.speaker = current.speaker
         THEN CombineLoopDropsLast(Tail(rest),
                  [current EXCEPT !.text = @ \o << " " >> \o utt.text], acc)
         ELSE CombineLoopDropsLast(Tail(rest),
                  [speaker |-> utt.speaker, text |-> utt.text],
                  Append(acc, current))

RECURSIVE CombineLoop(_, _, _)
CombineLoop(rest, current, acc) ==
    IF rest = << >> THEN Append(acc, current)
    ELSE LET utt == Head(rest) IN
         IF utt.speaker = current.speaker
         THEN CombineLoop(Tail(rest),
                          [current EXCEPT !.text = @ \o << " " >> \o utt.text],
                          acc)
         ELSE CombineLoop(Tail(rest),
                          [speaker |-> utt.speaker, text |-> utt.text],
                          Append(acc, current))

combine_consecutive_speakers(utterances) ==
    IF utterances = << >> THEN << >>
    ELSE CombineLoop(Tail(utterances),
                     [speaker |-> utterances[1].speaker,
                      text |-> utterances[1].text],
                     << >>)

\* json.dump / json.load of the list of {speaker, text} records.
save_combined_utterances(utterances) ==
    [j \in 1..Len(utterances) |-> << utterances[j].speaker, utterances[j].text >>]

load_combined_utterances(file) ==
    [j \in 1..Len(file) |-> [speaker |-> file[j][1], text |-> file[j][2]]]

\* json.dump of the dict writes its items in order; json.load inserts them
\* again one by one.
save_boundaries(d) ==
    [j \in 1..Len(d) |-> << d[j].top, d[j].start_idx, d[j].end_idx >>]

RECURSIVE LoadBoundariesFrom(_, _)
LoadBoundariesFrom(file, d) ==
    IF file = << >> THEN d
    ELSE LoadBoundariesFrom(
             Tail(file),
             DictSet(d, Head(file)[1],
                     [top |-> Head(file)[1], start_idx |-> Head(file)[2],
                      end_idx |-> Head(file)[3]]))

load_boundaries(file) == LoadBoundariesFrom(file, << >>)

\* len(base_prompt): the template with both labels filled in.
BasePromptLen(current_top, next_top) ==
    825 + LabelLen(current_top) + LabelLen(next_top)

available_tokens(current_top, next_top, ctx) ==
    LET base_tokens == estimate_tokens(BasePromptLen(current_top, next_top))
        response_buffer == 500
    IN  ctx - base_tokens - response_buffer

\* len(f"[Utterance {absolute_idx}] [{utt['speaker']}]: {utt['text']}\n")
UttLineLen(absolute_idx, utt) ==
    11 + Digits(absolute_idx) + 3 + SpeakerLen(utt.speaker) + 3
       + Len(utt.text) + 1

RECURSIVE WindowLoopInverted(_, _, _, _, _)
WindowLoopInverted(remaining_utterances, absolute_start_idx, i, chars, available) ==
    IF i >= Len(remaining_utterances)
    THEN [included_count |-> i, truncated |-> FALSE, chars |-> chars]
    ELSE LET utt_line == UttLineLen(absolute_start_idx + i,
                                    remaining_utterances[i + 1])
             new_total == estimate_tokens(chars + utt_line)
         IN  IF new_total < available
             THEN [included_count |-> i, truncated |-> TRUE, chars |-> chars]
             ELSE WindowLoopInverted(remaining_utterances, absolute_start_idx,
                                     i + 1, chars + utt_line, available)

RECURSIVE WindowLoopStrict(_, _, _, _, _)
WindowLoopStrict(remaining_utterances, absolute_start_idx, i, chars, available) ==
    IF i >= Len(remaining_utterances)
    THEN [included_count |-> i, truncated |-> FALSE, chars |-> chars]
    ELSE LET utt_line == UttLineLen(absolute_start_idx + i,
                                    remaining_utterances[i + 1])
             new_total == estimate_tokens(chars + utt_line)
         IN  IF new_total >= available
             THEN [included_count |-> i, truncated |-> TRUE, chars |-> chars]
             ELSE WindowLoopStrict(remaining_utterances, absolute_start_idx,
                                   i + 1, chars + utt_line, available)

\* The for loop that assembles transcript_text; i is the 0-based loop index,
\* chars is len(transcript_text).
RECURSIVE WindowLoop(_, _, _, _, _)
WindowLoop(remaining_utterances, absolute_start_idx, i, chars, available) ==
    IF i >= Len(remaining_utterances)
    THEN [included_count |-> i, truncated |-> FALSE, chars |-> chars]
    ELSE LET utt_line == UttLineLen(absolute_start_idx + i,
                                    remaining_utterances[i + 1])
             new_total == estimate_tokens(chars + utt_line)
         IN  IF new_total > available
             THEN [included_count |-> i, truncated |-> TRUE, chars |-> chars]
             ELSE WindowLoop(remaining_utterances, absolute_start_idx, i + 1,
                             chars + utt_line, available)

BuildWindow(remaining_utterances, absolute_start_idx, available) ==
    WindowLoop(remaining_utterances, absolute_start_idx, 0, 0, available)

\* What the external model did with one request.
\*   failed      : requests.post or raise_for_status raised
\*   unparseable : the response text holds no parseable JSON object (json.loads
\*                 raised), or the object has no boundary_index that compares
\*                 with an integer (the comparison raised)
\*   parsed      : the object was parsed and names boundary_index idx
Outcomes(lo, hi) ==
    { [kind |-> "failed", idx |-> 0], [kind |-> "unparseable", idx |-> 0] }
        \cup { [kind |-> "parsed", idx |-> b] : b \in lo..hi }

find_single_boundary_relative(remaining_utterances, absolute_start_idx, o) ==
    IF o.kind = "parsed"
    THEN LET boundary_idx == o.idx
             max_idx == absolute_start_idx + Len(remaining_utterances) - 1
         IN  IF boundary_idx < absolute_start_idx \/ boundary_idx > max_idx
             THEN Min(max_idx, Max(absolute_start_idx, boundary_idx))
             ELSE boundary_idx
    ELSE Len(remaining_utterances) \div 2

find_single_boundary_stays(remaining_utterances, absolute_start_idx, o) ==
    IF o.kind = "parsed"
    THEN LET boundary_idx == o.idx
             max_idx == absolute_start_idx + Len(remaining_utterances) - 1
         IN  IF boundary_idx < absolute_start_idx \/ boundary_idx > max_idx
             THEN Min(max_idx, Max(absolute_start_idx, boundary_idx))
             ELSE boundary_idx
    ELSE absolute_start_idx

\* The value find_single_boundary returns: the try block for a parsed
\* response, the except block for everything that raised.
find_single_boundary(remaining_utterances, absolute_start_idx, o) ==
    IF o.kind = "parsed"
    THEN LET boundary_idx == o.idx
             max_idx == absolute_start_idx + Len(remaining_utterances) - 1
         IN  IF boundary_idx < absolute_start_idx \/ boundary_idx > max_idx
             THEN Min(max_idx, Max(absolute_start_idx, boundary_idx))
             ELSE boundary_idx
    ELSE absolute_start_idx + Len(remaining_utterances) \div 2

\* utterances[current_start:]
Remaining(utterances, start) == SubSeq(utterances, start + 1, Len(utterances))

\* range(len(tops) - 1): the number of search steps.
SearchStepsShort(tps) == Len(tps) - 2

SearchSteps(tps) == Len(tps) - 1

StoreBoundaryKeepFirst(d, top, start_idx, end_idx) == IF DictHas(d, top) THEN d ELSE Append(d, [top |-> top, start_idx |-> start_idx, end_idx |-> end_idx])

\* boundaries[top] = {"start_idx": ..., "end_idx": ...}
StoreBoundary(d, top, start_idx, end_idx) ==
    DictSet(d, top, [top |-> top, start_idx |-> start_idx, end_idx |-> end_idx])

LastTopOffByOne(d, tps, start, utterances) ==
    StoreBoundary(d, tps[Len(tps)], start, Len(utterances))

\* "Last TOP gets everything remaining"
LastTop(d, tps, start, utterances) ==
    StoreBoundary(d, tps[Len(tps)], start, Len(utterances) - 1)

----------------------------------------------------------------------------
(* SequentialProtocolGenerator.generate_protocol as a state machine *)

NoWindow == [included_count |-> 0, truncated |-> FALSE, chars |-> 0]

NoOutcome == [status |-> "none", boundaries |-> << >>]

NoStep == [cursor |-> 0, remaining |-> 0, window |-> 0, kind |-> "none",
           idx |-> 0, boundary |-> 0]

InitSequential ==
    /\ topicsFile \in TopicsFiles
    /\ transcriptFile \in Transcripts
    /\ max_context_tokens \in ContextChoices
    /\ combinedFile = NoFile
    /\ boundariesFile = NoFile
    /\ pc = "idle"
    /\ tops = << >>
    /\ combined = << >>
    /\ boundaries = << >>
    /\ current_start = 0
    /\ step = 0
    /\ window = NoWindow
    /\ runs = 0
    /\ calls = 0
    /\ parses = 0
    /\ writes = {}
    /\ atStart = [combined |-> NoFile, boundaries |-> NoFile]
    /\ cursors = << >>
    /\ lastStep = NoStep
    /\ outcome = NoOutcome

TranscriptStageAlwaysParses(cFile, tFile) ==
    LET utterances == load_transcript(tFile)
        comb == combine_consecutive_speakers(utterances)
    IN  IF utterances = << >>
        THEN [ok |-> FALSE, combined |-> << >>, file |-> cFile,
              parses |-> 1, wrote |-> FALSE]
        ELSE [ok |-> TRUE, combined |-> comb,
              file |-> File(save_combined_utterances(comb)),
              parses |-> 1, wrote |-> TRUE]

TranscriptStageNoSave(cFile, tFile) ==
    IF cFile # NoFile
    THEN [ok |-> TRUE, combined |-> load_combined_utterances(cFile.content),
          file |-> cFile, parses |-> 0, wrote |-> FALSE]
    ELSE LET utterances == load_transcript(tFile)
             comb == combine_consecutive_speakers(utterances)
         IN  [ok |-> utterances # << >>, combined |-> comb, file |-> cFile,
              parses |-> 1, wrote |-> FALSE]

\* Step 2 of generate_protocol: load the combined utterances from the
\* checkpoint, or parse the transcript, combine and save.
TranscriptStage(cFile, tFile) ==
    IF cFile # NoFile
    THEN [ok |-> TRUE, combined |-> load_combined_utterances(cFile.content),
          file |-> cFile, parses |-> 0, wrote |-> FALSE]
    ELSE LET utterances == load_transcript(tFile)
             comb == combine_consecutive_speakers(utterances)
         IN  IF utterances = << >>
             THEN [ok |-> FALSE, combined |-> << >>, file |-> cFile,
                   parses |-> 1, wrote |-> FALSE]
             ELSE [ok |-> TRUE, combined |-> comb,
                   file |-> File(save_combined_utterances(comb)),
                   parses |-> 1, wrote |-> TRUE]

\* The run returns: nothing is left pending.
Return(status, map) ==
    /\ pc' = "idle"
    /\ outcome' = [status |-> status, boundaries |-> map]

\* find_top_boundaries after its loop: the terminal assignment, then
\* save_boundaries and the end of generate_protocol.
FinishBoundaries(d, start) ==
    LET final == LastTop(d, tops', start, combined') IN
    /\ boundaries' = final
    /\ boundariesFile' = File(save_boundaries(final))
    /\ writes' = writes \cup {"boundaries"}
    /\ Return("ok", final)

\* generate_protocol from its call up to its return or to the first search step.
StartRun ==
    /\ pc = "idle"
    /\ runs < MaxRuns
    /\ runs' = runs + 1
    /\ atStart' = [combined |-> combinedFile, boundaries |-> boundariesFile]
    /\ calls' = 0
    /\ cursors' = << >>
    /\ lastStep' = NoStep
    /\ window' = NoWindow
    /\ step' = 0
    /\ current_start' = 0
    /\ tops' = load_topics_from_file(topicsFile)
    /\ UNCHANGED << topicsFile, transcriptFile, max_context_tokens >>
    /\ UNCHANGED << modVars, recVars, loadVars, mergeVars,
                    chunkVars, assignVars, smoothVars, jobVars >>
    /\ IF tops' = << >>
       THEN /\ Return("no_tops", << >>)
            /\ parses' = 0
            /\ writes' = {}
            /\ boundaries' = << >>
            /\ combined' = << >>
            /\ UNCHANGED << combinedFile, boundariesFile >>
       ELSE LET ts == TranscriptStage(combinedFile, transcriptFile) IN
            /\ parses' = ts.parses
            /\ combined' = ts.combined
            /\ combinedFile' = ts.file
            /\ IF ~ts.ok
               THEN /\ Return("empty_transcript", << >>)
                    /\ writes' = {}
                    /\ boundaries' = << >>
                    /\ UNCHANGED boundariesFile
               ELSE IF boundariesFile # NoFile
               THEN /\ boundaries' = load_boundaries(boundariesFile.content)
                    /\ writes' = IF ts.wrote THEN {"combined"} ELSE {}
                    /\ Return("ok", boundaries')
                    /\ UNCHANGED boundariesFile
               ELSE IF SearchSteps(tops') > 0
               THEN /\ boundaries' = << >>
                    /\ writes' = IF ts.wrote THEN {"combined"} ELSE {}
                    /\ pc' = "search"
                    /\ UNCHANGED << boundariesFile, outcome >>
               ELSE LET final == LastTop(<< >>, tops', 0, combined') IN
                    /\ boundaries' = final
                    /\ boundariesFile' = File(save_boundaries(final))
                    /\ writes' = (IF ts.wrote THEN {"combined"} ELSE {})
                                     \cup {"boundaries"}
                    /\ Return("ok", final)

\* One iteration of the loop up to requests.post: the remaining utterances
\* are sliced, the window is assembled and the request goes out.
SendRequest ==
    /\ pc = "search"
    /\ LET remaining == Remaining(combined, current_start)
           available == available_tokens(tops[step + 1], tops[step + 2],
                                         max_context_tokens)
       IN  window' = BuildWindow(remaining, current_start, available)
    /\ calls' = calls + 1
    /\ pc' = "awaiting"
    /\ UNCHANGED << topicsFile, transcriptFile, max_context_tokens,
                    combinedFile, boundariesFile, tops, combined, boundaries,
                    current_start, step, runs, parses, writes, atStart,
                    cursors, lastStep, outcome >>
    /\ UNCHANGED << modVars, recVars, loadVars, mergeVars,
                    chunkVars, assignVars, smoothVars, jobVars >>

\* The rest of the iteration: the response (or the exception) is turned into
\* the boundary, the boundary is stored and the cursor moves; after the last
\* iteration the function finishes.
ReceiveResponse ==
    /\ pc = "awaiting"
    /\ \E o \in Outcomes(-1, Len(combined) + 1) :
         LET remaining == Remaining(combined, current_start)
             boundary_idx == find_single_boundary(remaining, current_start, o)
             stored == StoreBoundary(boundaries, tops[step + 1],
                                     current_start, boundary_idx)
         IN  /\ cursors' = Append(cursors, current_start)
             /\ lastStep' = [cursor |-> current_start,
                             remaining |-> Len(remaining),
                             window |-> window.included_count,
                             kind |-> o.kind,
                             idx |-> o.idx,
                             boundary |-> boundary_idx]
             /\ current_start' = boundary_idx + 1
             /\ step' = step + 1
             /\ UNCHANGED << tops, combined >>
             /\ IF step + 1 < SearchSteps(tops)
                THEN /\ boundaries' = stored
                     /\ pc' = "search"
                     /\ UNCHANGED << boundariesFile, writes, outcome >>
                ELSE FinishBoundaries(stored, boundary_idx + 1)
    /\ UNCHANGED << topicsFile, transcriptFile, max_context_tokens,
                    combinedFile, window, runs, calls, parses, atStart >>
    /\ UNCHANGED << modVars, recVars, loadVars, mergeVars,
                    chunkVars, assignVars, smoothVars, jobVars >>

NextSequential ==
    \/ StartRun
    \/ SendRequest
    \/ ReceiveResponse

InitModeratorIdle ==
    /\ modTops = << >>
    /\ modResponse = [kind |-> "failed", segments |-> << >>]
    /\ modResult = NoResult

InitRecoverIdle ==
    /\ response_text = << >>
    /\ recResult = NoResult

InitLoaderIdle ==
    /\ transcript_lines = << >>
    /\ full_utterances = NoResult
    /\ moderator_utterances = NoResult
    /\ seq_utterances = NoResult
    /\ seg_utterances = NoResult

InitMergeIdle ==
    /\ utterances_in = << >>
    /\ segments_in = << >>
    /\ merged = NoResult
    /\ remerged = NoResult
    /\ transcript = NoResult

InitChunkIdle ==
    /\ n_utterances = 0
    /\ chunk_size = 1
    /\ overlap = 0
    /\ chunks_out = NoResult

InitAssignIdle ==
    /\ similarities = << >>
    /\ assignments_out = NoResult

InitSmoothIdle ==
    /\ raw_assignments = << >>
    /\ window_size = 1
    /\ min_segment_length = 1
    /\ smoothed_out = NoResult

InitJobsIdle ==
    /\ jobs = << >>
    /\ job_max_count = DefaultJobMaxCount
    /\ now = 0
    /\ uploads = 0
    /\ tasks = << >>
    /\ statusLog = << >>
    /\ transcribed = {}
    /\ keyErrors = {}

\* The embedding path and the job store at rest.
InitOthersIdle ==
    InitChunkIdle /\ InitAssignIdle /\ InitSmoothIdle /\ InitJobsIdle

InitSequentialOnly ==
    /\ InitSequential
    /\ InitModeratorIdle /\ InitRecoverIdle /\ InitLoaderIdle /\ InitMergeIdle
    /\ InitOthersIdle

SpecSequential == InitSequentialOnly /\ [][NextSequential]_vars

\* The process is interrupted while requests.post blocks (KeyboardInterrupt,
\* termination): that is no Exception, the except block does not catch it, and
\* generate_protocol ends where it is, without save_boundaries.
Interrupt ==
    /\ pc = "awaiting"
    /\ pc' = "idle"
    /\ outcome' = [status |-> "aborted", boundaries |-> << >>]
    /\ UNCHANGED << topicsFile, transcriptFile, max_context_tokens,
                    combinedFile, boundariesFile, tops, combined, boundaries,
                    current_start, step, window, runs, calls, parses, writes,
                    atStart, cursors, lastStep >>
    /\ UNCHANGED << modVars, recVars, loadVars, mergeVars,
                    chunkVars, assignVars, smoothVars, jobVars >>

\* Runs that may be interrupted, with the constructor's default context size.
InitInterruptible ==
    /\ InitSequentialOnly
    /\ max_context_tokens = DefaultMaxContextTokens

NextInterruptible ==
    \/ StartRun
    \/ SendRequest
    \/ ReceiveResponse
    \/ Interrupt

SpecInterruptible == InitInterruptible /\ [][NextInterruptible]_vars

----------------------------------------------------------------------------
(* Claims about the sequential boundary search *)

Distinct(tps) == \A i, j \in 1..Len(tps) : i # j => tps[i] # tps[j]

\* The run ended and it ran find_top_boundaries (the map was not loaded from
\* the checkpoint); boundaries is the map find_top_boundaries returned.
Detected ==
    /\ pc = "idle"
    /\ outcome.status = "ok"
    /\ "boundaries" \in writes

Span(e) == e.start_idx..e.end_idx

\* C1: for N > 0 distinct labels and M >= N utterances the returned map
\* partitions [0, M-1]: the spans are pairwise disjoint, every index lies in
\* exactly one span, no span holds an index outside [0, M-1], and the spans
\* appear in input topic order.
C1_SpansPartitionTranscript ==
    (Detected /\ Distinct(tops) /\ Len(combined) >= Len(tops)) =>
        /\ DictKeys(boundaries) = tops
        /\ \A i, j \in 1..Len(boundaries) :
               i # j => Span(boundaries[i]) \cap Span(boundaries[j]) = {}
        /\ \A k \in 0..(Len(combined) - 1) :
               Cardinality({ j \in 1..Len(boundaries) :
                               k \in Span(boundaries[j]) }) = 1
        /\ \A j \in 1..Len(boundaries) :
               Span(boundaries[j]) \subseteq 0..(Len(combined) - 1)

\* C2: for distinct labels the first topic starts at 0, the last topic ends at
\* the final utterance index, and each topic starts right after the one before
\* it ends.
C2_SpansAreChained ==
    (Detected /\ Distinct(tops)) =>
        /\ Len(boundaries) = Len(tops)
        /\ boundaries[1].start_idx = 0
        /\ boundaries[Len(boundaries)].end_idx = Len(combined) - 1
        /\ \A j \in 1..(Len(boundaries) - 1) :
               boundaries[j].end_idx + 1 = boundaries[j + 1].start_idx

C2_Witness ==
    /\ Detected /\ Distinct(tops)
    /\ Len(tops) = 3
    /\ lastStep.kind = "failed"
    /\ boundaries[2].start_idx > 0

\* C3: the cursor a step leaves behind (the one the next step starts from) is
\* strictly greater than the cursor the step started from, whatever the model
\* did and also when the cursor had already reached the end of the transcript.
\* It is stated here for the inputs the search is specified for (distinct
\* labels, M >= N), where it already fails.
C3_CursorStrictlyAdvances ==
    (Distinct(tops) /\ Len(combined) >= Len(tops) /\ lastStep.kind # "none")
        => current_start > lastStep.cursor

\* C4: a run of find_top_boundaries issues exactly N - 1 requests, one per
\* search step and one after another: no request is repeated after a failure,
\* and the request of a step goes out only when all earlier steps have stored
\* their boundary.
C4_OneRequestPerStep ==
    /\ Detected => calls = Len(tops) - 1
    /\ pc = "search" => (calls = step /\ Len(cursors) = step)
    /\ pc = "awaiting" => (calls = step + 1 /\ Len(cursors) = step)
    /\ pc # "idle" => step < Len(tops) - 1

C4_Witness ==
    /\ Detected
    /\ Len(tops) = 3
    /\ calls = 2
    /\ lastStep.kind \in {"failed", "unparseable"}

\* C5 as stated: after a failed call the boundary is cursor + window_length
\* // 2, window_length being the size of the token-budgeted window.
C5_FallbackBisectsWindow ==
    (lastStep.kind = "failed") =>
        /\ lastStep.boundary = lastStep.cursor + lastStep.window \div 2
        /\ lastStep.window >= 1 => current_start > lastStep.cursor

\* C5 (amended): after a failed call the boundary is cursor + R // 2, R being
\* the number of all utterances from the cursor to the end of the transcript
\* (whether or not they fitted into the window), and the next cursor exceeds
\* the current one.
C5_FallbackBisectsRemaining ==
    (lastStep.kind = "failed") =>
        /\ lastStep.boundary = lastStep.cursor + lastStep.remaining \div 2
        /\ current_start > lastStep.cursor

C5_Witness ==
    /\ lastStep.kind = "failed"
    /\ lastStep.cursor > 0
    /\ lastStep.window >= 1
    /\ lastStep.remaining \div 2 # lastStep.window \div 2

\* C6: a run that starts with both checkpoints present issues no request, does
\* not parse the transcript and writes no file; both files stay as they were
\* and the map it ends with is the stored one.
C6_RerunUsesCheckpoints ==
    (pc = "idle" /\ runs > 0 /\ atStart.combined.exists
        /\ atStart.boundaries.exists) =>
        /\ calls = 0
        /\ parses = 0
        /\ writes = {}
        /\ combinedFile = atStart.combined
        /\ boundariesFile = atStart.boundaries
        /\ outcome.status = "ok"
        /\ save_boundaries(outcome.boundaries) = boundariesFile.content
        /\ save_combined_utterances(combined) = combinedFile.content

C6_Witness ==
    /\ pc = "idle"
    /\ runs = 2
    /\ atStart.combined.exists /\ atStart.boundaries.exists
    /\ Len(outcome.boundaries) = 3

\* The topics file holds no label: it is empty or all its lines are blank.
NoLabel(file) == \A j \in 1..Len(file) : file[j] = 0

\* The transcript holds no line with a speaker tag.
NoTaggedLine(file) == \A j \in 1..Len(file) : file[j].kind # "tag"

\* C12: when the topics file yields no label, or the transcript yields no
\* utterance while no combined-utterances checkpoint exists, the run stops
\* without writing a checkpoint file (neither file exists afterwards) and
\* without a request to the model.
C12_NoOutputOnEmptyInput ==
    (/\ pc = "idle" /\ runs > 0
     /\ \/ NoLabel(topicsFile)
        \/ ~atStart.combined.exists /\ NoTaggedLine(transcriptFile)) =>
        /\ outcome.status \in {"no_tops", "empty_transcript"}
        /\ writes = {}
        /\ calls = 0
        /\ combinedFile = atStart.combined
        /\ boundariesFile = atStart.boundaries
        /\ ~boundariesFile.exists

C12_Witness ==
    /\ pc = "idle" /\ runs > 0
    /\ ~NoLabel(topicsFile)
    /\ transcriptFile # << >> /\ NoTaggedLine(transcriptFile)
    /\ outcome.status = "empty_transcript"

\* The request in flight: the utterances it may draw on, and the tokens left
\* for them under a context of ctx tokens.
InFlightRemaining == Remaining(combined, current_start)

InFlightBudget(ctx) == available_tokens(tops[step + 1], tops[step + 2], ctx)

\* Context sizes to compare the window of the request in flight with.
BudgetProbes == ContextChoices \cup (700..735)

\* C16: for the same two labels and the same remaining utterances, a smaller
\* max_context_tokens never gives a window of more utterances, and a larger
\* one never gives a window of fewer.
C16_WindowMonotoneInBudget ==
    (pc = "awaiting") =>
        \A b \in BudgetProbes :
            LET other == BuildWindow(InFlightRemaining, current_start,
                                     InFlightBudget(b)).included_count
            IN  /\ b <= max_context_tokens => other <= window.included_count
                /\ b >= max_context_tokens => other >= window.included_count

C16_Witness ==
    /\ pc = "awaiting"
    /\ max_context_tokens = 721
    /\ window.included_count = 2
    /\ Len(InFlightRemaining) = 3
    /\ BuildWindow(InFlightRemaining, current_start,
                   InFlightBudget(713)).included_count = 1

\* C17: a parsed response gives a boundary in [cursor, cursor + window_length
\* - 1], window_length being the number of utterances of the window that was
\* sent (at least one here): an index in the range is returned unchanged, one
\* below it becomes cursor, one above it cursor + window_length - 1.
C17_ParsedBoundaryWithinWindow ==
    (lastStep.kind = "parsed" /\ lastStep.window >= 1) =>
        LET lo == lastStep.cursor
            hi == lastStep.cursor + lastStep.window - 1
        IN  /\ lastStep.boundary \in lo..hi
            /\ lastStep.idx \in lo..hi => lastStep.boundary = lastStep.idx
            /\ lastStep.idx < lo => lastStep.boundary = lo
            /\ lastStep.idx > hi => lastStep.boundary = hi

\* C18 as stated: a response that cannot be parsed aborts the run: no later
\* step is executed, no map is returned and no boundaries checkpoint is
\* written.
C18_UnparseableAbortsRun ==
    (lastStep.kind = "unparseable") =>
        /\ pc = "idle"
        /\ outcome.status # "ok"
        /\ ~boundariesFile.exists

\* C18 (amended): a response that cannot be parsed is handled as a failed call:
\* the step returns cursor + R // 2 (R the number of remaining utterances),
\* the boundary is stored and the cursor moves behind it, and the run goes on
\* with the next step or, after the last step, with the terminal assignment
\* and the boundaries checkpoint.
C18_UnparseableFallsBack ==
    [][(pc = "awaiting" /\ step' = step + 1 /\ lastStep'.kind = "unparseable")
          => /\ lastStep'.boundary =
                    current_start + Len(InFlightRemaining) \div 2
             /\ current_start' = lastStep'.boundary + 1
             /\ DictHas(boundaries', tops[step + 1])
             /\ IF step + 1 < Len(tops) - 1
                THEN pc' = "search" /\ ~boundariesFile'.exists
                ELSE /\ pc' = "idle"
                     /\ outcome'.status = "ok"
                     /\ boundariesFile' = File(save_boundaries(boundaries'))
                     /\ DictHas(boundaries', tops[Len(tops)])]_vars

C18_Witness ==
    /\ Detected
    /\ Len(tops) = 3 /\ Distinct(tops)
    /\ lastStep.kind = "unparseable"
    /\ lastStep.cursor > 0
    /\ lastStep.remaining >= 2

\* The first k lines of the window's text, in characters.
RECURSIVE PrefixChars(_, _, _)
PrefixChars(remaining_utterances, absolute_start_idx, k) ==
    IF k = 0 THEN 0
    ELSE PrefixChars(remaining_utterances, absolute_start_idx, k - 1)
             + UttLineLen(absolute_start_idx + k - 1, remaining_utterances[k])

\* C19: the window of the request in flight is the longest prefix of the
\* remaining utterances whose formatted lines cost at most max_context_tokens
\* - estimate(scaffold) - 500 tokens (characters // 4): every prefix up to the
\* window fits, the next utterance (if any) would not, and truncated is set
\* exactly when an utterance was left out.
C19_WindowIsLongestFittingPrefix ==
    (pc = "awaiting") =>
        LET R == InFlightRemaining
            budget == max_context_tokens
                          - BasePromptLen(tops[step + 1], tops[step + 2]) \div 4
                          - 500
            Fits(k) == PrefixChars(R, current_start, k) \div 4 <= budget
        IN  /\ window.included_count \in 0..Len(R)
            /\ \A k \in 1..window.included_count : Fits(k)
            /\ window.included_count < Len(R)
                   => ~Fits(window.included_count + 1)
            /\ window.truncated <=> window.included_count < Len(R)

C19_Witness ==
    /\ pc = "awaiting"
    /\ current_start > 0
    /\ window.included_count = 1
    /\ window.truncated
    /\ Len(InFlightRemaining) = 2

\* C20: the boundaries checkpoint is written only when all N - 1 steps and the
\* terminal assignment are done, and then holds an entry for every topic; an
\* interrupted run leaves the combined-utterances checkpoint and no boundaries
\* checkpoint; the run after it does not parse the transcript again and
\* searches from the first topic and utterance 0.
C20_CheckpointsAtStageGranularity ==
    /\ pc # "idle" => ~boundariesFile.exists
    /\ "boundaries" \in writes =>
           /\ pc = "idle" /\ outcome.status = "ok"
           /\ calls = Len(tops) - 1 /\ Len(cursors) = Len(tops) - 1
    /\ boundariesFile.exists =>
           \A j \in 1..Len(tops) :
               DictHas(load_boundaries(boundariesFile.content), tops[j])
    /\ (pc = "idle" /\ outcome.status = "aborted") =>
           /\ combinedFile.exists
           /\ ~boundariesFile.exists
    /\ (runs > 0 /\ atStart.combined.exists /\ ~atStart.boundaries.exists) =>
           /\ parses = 0
           /\ combinedFile = atStart.combined
           /\ combined = load_combined_utterances(combinedFile.content)
           /\ cursors # << >> => cursors[1] = 0
           /\ (pc = "search" /\ step = 0) =>
                  (current_start = 0 /\ boundaries = << >> /\ calls = 0)
           /\ (pc = "idle" /\ outcome.status = "ok") =>
                  (calls = Len(tops) - 1 /\ writes = {"boundaries"})

C20_Witness ==
    /\ runs = 2
    /\ atStart.combined.exists /\ ~atStart.boundaries.exists
    /\ Detected
    /\ Len(tops) = 3
    /\ boundariesFile.exists

\* The span the search computed for position i of the topic list: it starts at
\* the cursor step i started from (the last position starts at the final
\* cursor) and ends right before the next position starts (the last one ends
\* at the final utterance).
StartOf(i) == IF i <= Len(cursors) THEN cursors[i] ELSE current_start

EndOf(i) == IF i < Len(tops) THEN StartOf(i + 1) - 1 ELSE Len(combined) - 1

LastPosition(label) ==
    CHOOSE i \in 1..Len(tops) :
        tops[i] = label /\ \A k \in 1..Len(tops) : tops[k] = label => k <= i

\* C26: when a label occurs at two positions of the topic list, the returned
\* map holds one entry for it, with the span computed for its last position;
\* the map has fewer entries than the list, the earlier span is gone.
C26_DuplicateLabelKeepsLaterSpan ==
    (Detected /\ ~Distinct(tops)) =>
        /\ Len(boundaries) < Len(tops)
        /\ \A i \in 1..Len(tops) :
               LET entries == { j \in 1..Len(boundaries) :
                                  boundaries[j].top = tops[i] }
                   last == LastPosition(tops[i])
               IN  /\ Cardinality(entries) = 1
                   /\ \A j \in entries :
                          /\ boundaries[j].start_idx = StartOf(last)
                          /\ boundaries[j].end_idx = EndOf(last)

\* The first and the third label are the same; its entry holds the span of
\* the third position, which differs from the span of the first.
C26_Witness ==
    /\ Detected
    /\ Len(tops) = 3 /\ tops[1] = tops[3] /\ tops[1] # tops[2]
    /\ Len(boundaries) = 2
    /\ boundaries[1].top = tops[1]
    /\ boundaries[1].start_idx = StartOf(3)
    /\ StartOf(3) # StartOf(1)

----------------------------------------------------------------------------
(* ModeratorSegmenter.segment_by_moderator *)

\* An optional integer: None, or a value.
Null == << >>

Some(k) == << k >>

\* Topic lists: labels 1..MaxModTops, first occurrences in increasing order.
ModTopLists ==
    { t \in SeqsUpTo(1..MaxModTops, MaxModTops) :
        /\ t # << >>
        /\ \A j \in 1..Len(t) :
               t[j] <= 1 + MaxOf({ t[k] : k \in 1..(j - 1) }) }

\* A label the model made up: it is in no topic list.
ForeignLabel == MaxModTops + 1

\* The segments a parsed response can hold.  announcement_index is null or
\* the start index; transition_type is "explicit" with an announcement and
\* "implicit" without.
SegmentChoices ==
    { sg \in [top : 1..ForeignLabel,
              start_index : {Null, Some(0), Some(1)},
              end_index : {Some(0), Some(2)},
              announcement_index : {Null, Some(0), Some(1)},
              transition_type : {"explicit", "implicit"}] :
        /\ sg.announcement_index \in {Null, sg.start_index}
        /\ sg.transition_type = "explicit" <=> sg.announcement_index # Null }

ModResponses ==
    { [kind |-> "failed", segments |-> << >>],
      [kind |-> "unparseable", segments |-> << >>] }
        \cup { [kind |-> "parsed", segments |-> sg] :
                 sg \in SeqsUpTo(SegmentChoices, MaxSegments) }

\* "Convert to dict mapping TOP to boundary info"
RECURSIVE ConvertSegments(_, _)
ConvertSegments(segments, d) ==
    IF segments = << >> THEN d
    ELSE LET seg == Head(segments) IN
         ConvertSegments(Tail(segments), DictSet(d, seg.top, seg))

MissingEntry(top) ==
    [top |-> top, start_index |-> Null, end_index |-> Null,
     announcement_index |-> Null, transition_type |-> "missing"]

AddMissingDropped(d, tps) == d

\* "Add missing TOPs with None values"
RECURSIVE AddMissing(_, _)
AddMissing(d, tps) ==
    IF tps = << >> THEN d
    ELSE AddMissing(IF DictHas(d, Head(tps)) THEN d
                    ELSE Append(d, MissingEntry(Head(tps))),
                    Tail(tps))

\* The request, extract_json_from_response and the reconciliation; every
\* exception is re-raised.
segment_by_moderator(tps, resp) ==
    IF resp.kind # "parsed" THEN Raised
    ELSE Returned(AddMissing(ConvertSegments(resp.segments, << >>), tps))

InitModerator ==
    /\ modTops \in ModTopLists
    /\ modResponse \in ModResponses
    /\ modResult = NoResult

SegmentByModerator ==
    /\ modResult = NoResult
    /\ modResult' = segment_by_moderator(modTops, modResponse)
    /\ UNCHANGED << modTops, modResponse >>
    /\ UNCHANGED << seqVars, recVars, loadVars, mergeVars,
                    chunkVars, assignVars, smoothVars, jobVars >>

InitSequentialIdle ==
    /\ topicsFile = << >>
    /\ transcriptFile = << >>
    /\ max_context_tokens = DefaultMaxContextTokens
    /\ combinedFile = NoFile
    /\ boundariesFile = NoFile
    /\ pc = "idle"
    /\ tops = << >>
    /\ combined = << >>
    /\ boundaries = << >>
    /\ current_start = 0
    /\ step = 0
    /\ window = NoWindow
    /\ runs = 0
    /\ calls = 0
    /\ parses = 0
    /\ writes = {}
    /\ atStart = [combined |-> NoFile, boundaries |-> NoFile]
    /\ cursors = << >>
    /\ lastStep = NoStep
    /\ outcome = NoOutcome

InitModeratorOnly ==
    /\ InitModerator
    /\ InitSequentialIdle /\ InitRecoverIdle /\ InitLoaderIdle /\ InitMergeIdle
    /\ InitOthersIdle

NextModerator == SegmentByModerator

SpecModerator == InitModeratorOnly /\ [][NextModerator]_vars

----------------------------------------------------------------------------
(* Claims about segment_by_moderator *)

NamedBySegment(top) ==
    \E j \in 1..Len(modResponse.segments) : modResponse.segments[j].top = top

Resolved(e) == e.start_index # Null /\ e.end_index # Null

\* The entries of the input topics that are resolved, in input topic order.
RECURSIVE ResolvedInOrder(_, _)
ResolvedInOrder(d, tps) ==
    IF tps = << >> THEN << >>
    ELSE LET hits == { j \in 1..Len(d) : d[j].top = Head(tps) /\ Resolved(d[j]) }
         IN  (IF hits = {} THEN << >> ELSE << d[CHOOSE j \in hits : TRUE] >>)
                 \o ResolvedInOrder(d, Tail(tps))

\* C7: whatever segments the model returned, the returned map holds exactly
\* one entry per input topic label and no other entry, in input topic order.
C7_OneEntryPerTopicInOrder ==
    (modResult.status = "returned" /\ Distinct(modTops)) =>
        DictKeys(modResult.value) = modTops

\* C8: every input topic label is in the returned map, and a label no segment
\* names has null start, end and announcement index and transition type
\* "missing".
C8_MissingTopicsAreMarked ==
    (modResult.status = "returned") =>
        \A i \in 1..Len(modTops) :
            /\ DictHas(modResult.value, modTops[i])
            /\ ~NamedBySegment(modTops[i]) =>
                   \A j \in 1..Len(modResult.value) :
                       modResult.value[j].top = modTops[i] =>
                           modResult.value[j] = MissingEntry(modTops[i])

C8_Witness ==
    /\ modResult.status = "returned"
    /\ Len(modTops) = 2 /\ Distinct(modTops)
    /\ Len(modResponse.segments) = 2
    /\ NamedBySegment(modTops[2]) /\ NamedBySegment(ForeignLabel)
    /\ ~NamedBySegment(modTops[1])

\* C9: whatever indices the model returned, the resolved topics of the returned
\* map are contiguous: the first starts at 0 and each one starts right after
\* the one before it ends.
C9_ResolvedSpansAreContiguous ==
    (modResult.status = "returned" /\ Distinct(modTops)) =>
        LET r == ResolvedInOrder(modResult.value, modTops) IN
        /\ r # << >> => r[1].start_index = Some(0)
        /\ \A j \in 1..(Len(r) - 1) :
               r[j + 1].start_index = Some(r[j].end_index[1] + 1)

----------------------------------------------------------------------------
(* json.loads on the characters that occur in the modelled responses *)

IsSpace(c) == c \in {" ", "\n"}

IsDigit(c) == c \in {"1", "2"}

RECURSIVE SkipWs(_, _)
SkipWs(s, i) ==
    IF i <= Len(s) /\ IsSpace(s[i]) THEN SkipWs(s, i + 1) ELSE i

At(s, i, c) == i <= Len(s) /\ s[i] = c

\* Each Parse operator takes the position of the first character and gives
\* the position after the last one, or 0 when the text is not well formed.
ParseString(s, i) ==
    LET closing == { j \in (i + 1)..Len(s) : s[j] = "\"" } IN
    IF closing = {} THEN 0
    ELSE LET j == CHOOSE m \in closing : \A x \in closing : m <= x IN
         IF \E k \in (i + 1)..(j - 1) : s[k] = "\n" THEN 0 ELSE j + 1

RECURSIVE ParseNumber(_, _)
ParseNumber(s, i) ==
    IF i <= Len(s) /\ IsDigit(s[i]) THEN ParseNumber(s, i + 1) ELSE i

RECURSIVE ParseValue(_, _)
RECURSIVE ParseMembers(_, _)
ParseValue(s, i) ==
    IF At(s, i, "{")
    THEN LET j == SkipWs(s, i + 1) IN
         IF At(s, j, "}") THEN j + 1 ELSE ParseMembers(s, j)
    ELSE IF At(s, i, "\"") THEN ParseString(s, i)
    ELSE IF i <= Len(s) /\ IsDigit(s[i]) THEN ParseNumber(s, i)
    ELSE 0

ParseMembers(s, j) ==
    IF ~At(s, j, "\"") THEN 0
    ELSE LET k == ParseString(s, j) IN
         IF k = 0 THEN 0
         ELSE LET c == SkipWs(s, k) IN
              IF ~At(s, c, ":") THEN 0
              ELSE LET v == ParseValue(s, SkipWs(s, c + 1)) IN
                   IF v = 0 THEN 0
                   ELSE LET e == SkipWs(s, v) IN
                        IF At(s, e, ",") THEN ParseMembers(s, SkipWs(s, e + 1))
                        ELSE IF At(s, e, "}") THEN e + 1
                        ELSE 0

\* The parsed value, written without insignificant whitespace.
Canon(s) == SelectSeq(s, LAMBDA c : ~IsSpace(c))

NoJson == [ok |-> FALSE, value |-> << >>]

\* json.loads(s): the whole text must be one value between optional
\* whitespace; anything else raises JSONDecodeError.
json_loads(s) ==
    LET i == SkipWs(s, 1)
        e == ParseValue(s, i)
    IN  IF e = 0 \/ SkipWs(s, e) # Len(s) + 1 THEN NoJson
        ELSE [ok |-> TRUE, value |-> Canon(SubSeq(s, i, e - 1))]

----------------------------------------------------------------------------
(* ModeratorSegmenter.extract_json_from_response *)

StartsWith(s, i, pat) ==
    /\ i + Len(pat) - 1 <= Len(s)
    /\ SubSeq(s, i, i + Len(pat) - 1) = pat

\* The backquote character is written "bq".
Fence == << "bq", "bq", "bq" >>

JsonWord == << "j", "s", "o", "n" >>

NoGroup == [found |-> FALSE, group |-> << >>]

\* \s*(\{.*?\})\s* and the closing fence, from position q0: the group runs from the brace at the
\* first non-space position to the first closing brace that is followed by
\* optional whitespace and a fence.
FenceBody(s, q0) ==
    LET q == SkipWs(s, q0)
        ends == { e \in (q + 1)..Len(s) :
                    s[e] = "}" /\ StartsWith(s, SkipWs(s, e + 1), Fence) }
    IN  IF ~At(s, q, "{") \/ ends = {} THEN NoGroup
        ELSE [found |-> TRUE,
              group |-> SubSeq(s, q, CHOOSE m \in ends : \A x \in ends : m <= x)]

\* The code block pattern (fence, optional json, the group, fence) tried at
\* position p.
FenceAt(s, p) ==
    IF ~StartsWith(s, p, Fence) THEN NoGroup
    ELSE LET withWord == IF StartsWith(s, p + 3, JsonWord)
                         THEN FenceBody(s, p + 7) ELSE NoGroup
         IN  IF withWord.found THEN withWord ELSE FenceBody(s, p + 3)

\* re.search(code_block_pattern, response_text, re.DOTALL): the leftmost match.
code_match(s) ==
    LET hits == { p \in 1..Len(s) : FenceAt(s, p).found } IN
    IF hits = {} THEN NoGroup
    ELSE FenceAt(s, CHOOSE m \in hits : \A x \in hits : m <= x)

RECURSIVE BalancedScanStopsAtFailure(_, _, _, _)
BalancedScanStopsAtFailure(s, i, brace_count, start_idx) ==
    IF i > Len(s) THEN NoJson
    ELSE IF s[i] = "{"
    THEN BalancedScanStopsAtFailure(s, i + 1, brace_count + 1,
                      IF brace_count = 0 THEN i ELSE start_idx)
    ELSE IF s[i] = "}"
    THEN IF brace_count - 1 = 0 /\ start_idx # 0
         THEN json_loads(SubSeq(s, start_idx, i))
         ELSE BalancedScanStopsAtFailure(s, i + 1, brace_count - 1, start_idx)
    ELSE BalancedScanStopsAtFailure(s, i + 1, brace_count, start_idx)

\* Strategy 2: the scan with brace_count and start_idx (0 stands for None).
RECURSIVE BalancedScan(_, _, _, _)
BalancedScan(s, i, brace_count, start_idx) ==
    IF i > Len(s) THEN NoJson
    ELSE IF s[i] = "{"
    THEN BalancedScan(s, i + 1, brace_count + 1,
                      IF brace_count = 0 THEN i ELSE start_idx)
    ELSE IF s[i] = "}"
    THEN IF brace_count - 1 = 0 /\ start_idx # 0
         THEN LET parsed == json_loads(SubSeq(s, start_idx, i)) IN
              IF parsed.ok THEN parsed
              ELSE BalancedScan(s, i + 1, 0, 0)
         ELSE BalancedScan(s, i + 1, brace_count - 1, start_idx)
    ELSE BalancedScan(s, i + 1, brace_count, start_idx)

TrimSuffixNoTrim(s, first_brace, end) ==
    json_loads(SubSeq(s, first_brace, end))

\* Strategy 3: from the first opening brace, every end from len(text) down.
RECURSIVE TrimSuffix(_, _, _)
TrimSuffix(s, first_brace, end) ==
    IF end < first_brace THEN NoJson
    ELSE LET parsed == json_loads(SubSeq(s, first_brace, end)) IN
         IF parsed.ok THEN parsed ELSE TrimSuffix(s, first_brace, end - 1)

FirstBrace(s) ==
    LET opens == { i \in 1..Len(s) : s[i] = "{" } IN
    IF opens = {} THEN 0 ELSE CHOOSE m \in opens : \A x \in opens : m <= x

extract_json_scan_first(s) == LET fenced == code_match(s) first == IF fenced.found THEN json_loads(fenced.group) ELSE NoJson second == BalancedScan(s, 1, 0, 0) IN IF second.ok THEN Returned(second.value) ELSE IF first.ok THEN Returned(first.value) ELSE Raised

extract_json_from_response(s) ==
    LET fenced == code_match(s)
        first == IF fenced.found THEN json_loads(fenced.group) ELSE NoJson
        second == BalancedScan(s, 1, 0, 0)
        first_brace == FirstBrace(s)
        third == IF first_brace # 0 THEN TrimSuffix(s, first_brace, Len(s))
                 ELSE NoJson
    IN  IF first.ok THEN Returned(first.value)
        ELSE IF second.ok THEN Returned(second.value)
        ELSE IF third.ok THEN Returned(third.value)
        ELSE Raised

\* Response texts: up to MaxFragments pieces of prose, braces, objects and
\* fences, concatenated.
ObjectA == << "{", "\"", "a", "\"", ":", "1", "}" >>

ObjectB == << "{", "\"", "b", "\"", ":", "2", "}" >>

FragmentChoices ==
    { << "x" >>, << "{" >>, << "}" >>, ObjectA, ObjectB, Fence,
      Fence \o JsonWord \o << "\n" >> }

RECURSIVE Concat(_)
Concat(parts) ==
    IF parts = << >> THEN << >> ELSE Head(parts) \o Concat(Tail(parts))

ResponseTexts ==
    { Concat(parts) : parts \in SeqsUpTo(FragmentChoices, MaxFragments) }

InitRecover ==
    /\ response_text \in ResponseTexts
    /\ recResult = NoResult

ExtractJson ==
    /\ recResult = NoResult
    /\ recResult' = extract_json_from_response(response_text)
    /\ UNCHANGED response_text
    /\ UNCHANGED << seqVars, modVars, loadVars, mergeVars,
                    chunkVars, assignVars, smoothVars, jobVars >>

InitRecoverOnly ==
    /\ InitRecover
    /\ InitSequentialIdle /\ InitModeratorIdle /\ InitLoaderIdle /\ InitMergeIdle
    /\ InitOthersIdle

NextRecover == ExtractJson

SpecRecover == InitRecoverOnly /\ [][NextRecover]_vars

----------------------------------------------------------------------------
(* Claims about extract_json_from_response *)

\* Nesting depth after the first k characters: opening minus closing braces.
Depth(s, k) ==
    Cardinality({ i \in 1..k : s[i] = "{" })
        - Cardinality({ i \in 1..k : s[i] = "}" })

\* The spans << i, j >> that open at depth zero and end where the depth is
\* back at zero for the first time.
DepthZeroSpans(s) ==
    { sp \in (1..Len(s)) \X (1..Len(s)) :
        /\ sp[1] < sp[2]
        /\ s[sp[1]] = "{"
        /\ Depth(s, sp[1] - 1) = 0
        /\ Depth(s, sp[2]) = 0
        /\ \A k \in sp[1]..(sp[2] - 1) : Depth(s, k) > 0 }

ParseableSpans(s) ==
    { sp \in DepthZeroSpans(s) : json_loads(SubSeq(s, sp[1], sp[2])).ok }

LeftmostSpan(S) == CHOOSE sp \in S : \A other \in S : sp[1] <= other[1]

NoiseExample ==
    << "x" >> \o ObjectA \o << "x" >> \o ObjectB \o << "x" >>

\* C10: with no fenced block in the text, the result is the leftmost span that
\* opens at depth zero, closes where the depth is back at zero and parses;
\* spans that do not parse are passed over.  For noise{"a":1}more{"b":2}trail
\* the result is {"a":1}.
C10_LeftmostParseableSpan ==
    (recResult # NoResult /\ ~code_match(response_text).found) =>
        /\ ParseableSpans(response_text) # {} =>
               LET sp == LeftmostSpan(ParseableSpans(response_text)) IN
               recResult = Returned(Canon(SubSeq(response_text, sp[1], sp[2])))
        /\ response_text = NoiseExample => recResult = Returned(ObjectA)

C10_Witness ==
    /\ recResult = Returned(ObjectB)
    /\ ~code_match(response_text).found
    /\ \E sp \in DepthZeroSpans(response_text) :
           /\ sp \notin ParseableSpans(response_text)
           /\ sp[1] < LeftmostSpan(ParseableSpans(response_text))[1]
    /\ \E sp \in ParseableSpans(response_text) :
           SubSeq(response_text, sp[1], sp[2]) = ObjectA

\* The three ways a text can yield an object, stated on the text alone: the
\* leftmost fenced block parses; some span that opens and closes at depth zero
\* parses; some stretch that starts at the first opening brace parses.
FencedBlockParses(s) ==
    code_match(s).found /\ json_loads(code_match(s).group).ok

SomeSpanParses(s) == ParseableSpans(s) # {}

SomePrefixParses(s) ==
    \E b \in 1..Len(s) :
        /\ s[b] = "{"
        /\ \A k \in 1..(b - 1) : s[k] # "{"
        /\ \E e \in b..Len(s) : json_loads(SubSeq(s, b, e)).ok

\* C11: extract_json_from_response raises exactly when none of the three
\* strategies can yield a parseable object: a text without an opening brace
\* always raises, and a text one of the strategies can parse never raises.
C11_RaisesIffAllStrategiesFail ==
    (recResult # NoResult) =>
        /\ recResult = Raised <=>
               ~(\/ FencedBlockParses(response_text)
                 \/ SomeSpanParses(response_text)
                 \/ SomePrefixParses(response_text))
        /\ (\A k \in 1..Len(response_text) : response_text[k] # "{")
               => recResult = Raised
        /\ recResult # Raised => recResult.status = "returned"

\* A text with braces and a fence that raises, because nothing in it parses.
C11_Witness ==
    /\ recResult = Raised
    /\ code_match(response_text).found
    /\ DepthZeroSpans(response_text) # {}

\* The positions at which the code block pattern matches and its group parses.
ParsingFences(s) ==
    { p \in 1..Len(s) :
        FenceAt(s, p).found /\ json_loads(FenceAt(s, p).group).ok }

\* C21 as stated: whenever the text contains a fenced block whose content
\* parses, the result is the content of such a block.
C21_AnyFencedBlockWins ==
    (recResult # NoResult /\ ParsingFences(response_text) # {}) =>
        \E p \in ParsingFences(response_text) :
            recResult = Returned(Canon(FenceAt(response_text, p).group))

\* The first position at which the code block pattern matches.
LeftmostFence(s) ==
    LET hits == { p \in 1..Len(s) : FenceAt(s, p).found } IN
    IF hits = {} THEN 0 ELSE CHOOSE m \in hits : \A x \in hits : m <= x

\* The longest stretch from the first opening brace that parses.
LongestPrefixParse(s) ==
    LET b == FirstBrace(s)
        ends == { e \in b..Len(s) : json_loads(SubSeq(s, b, e)).ok }
    IN  Canon(SubSeq(s, b, CHOOSE m \in ends : \A x \in ends : x <= m))

\* C21 (amended): the strategies are tried in the order fenced block,
\* balanced-brace scan, suffix trimming and the first success is returned: if
\* the leftmost fenced block of the text has content that parses, the result
\* is that content even when an unfenced parseable object occurs earlier;
\* otherwise the leftmost parseable depth-zero span wins over the stretch from
\* the first opening brace.
C21_LeftmostFencedBlockWins ==
    (recResult # NoResult) =>
        LET s == response_text
            p == LeftmostFence(s)
            fenceOk == p # 0 /\ json_loads(FenceAt(s, p).group).ok
        IN  /\ fenceOk => recResult = Returned(Canon(FenceAt(s, p).group))
            /\ (~fenceOk /\ ParseableSpans(s) # {}) =>
                   LET sp == LeftmostSpan(ParseableSpans(s)) IN
                   recResult = Returned(Canon(SubSeq(s, sp[1], sp[2])))
            /\ (~fenceOk /\ ParseableSpans(s) = {} /\ SomePrefixParses(s)) =>
                   recResult = Returned(LongestPrefixParse(s))

\* A fenced object is returned although a different unfenced object that
\* parses stands before the fence.
C21_Witness ==
    /\ recResult.status = "returned"
    /\ LeftmostFence(response_text) # 0
    /\ recResult.value = Canon(FenceAt(response_text, LeftmostFence(response_text)).group)
    /\ \E sp \in ParseableSpans(response_text) :
           /\ sp[2] < LeftmostFence(response_text)
           /\ Canon(SubSeq(response_text, sp[1], sp[2])) # recResult.value

\* C27: whenever some substring of the text is a brace-balanced object that
\* parses, extract_json_from_response returns an object, whatever unmatched
\* braces or unparseable spans stand around it.
C27_AnyBalancedObjectIsRecovered ==
    (/\ recResult # NoResult
     /\ \E i, j \in 1..Len(response_text) :
            /\ i < j
            /\ response_text[i] = "{"
            /\ Depth(SubSeq(response_text, i, j), j - i + 1) = 0
            /\ json_loads(SubSeq(response_text, i, j)).ok)
        => recResult.status = "returned"


----------------------------------------------------------------------------
(* The transcript loaders: MinutesGenerator.load_full_transcript,            *)
(* ModeratorExtractor.extract_moderator_with_indices,                        *)
(* SequentialProtocolGenerator.load_transcript and                           *)
(* TranscriptSegmenter.load_transcript                                       *)

\* self.moderator_speaker_id, as the number in the speaker tag.
moderator_speaker_id == 0

\* for line_num, line in enumerate(f): n is the position of the line, n - 1
\* its line_num.
RECURSIVE LoadFullLoop(_, _, _)
LoadFullLoop(lns, n, utterances) ==
    IF n > Len(lns) THEN utterances
    ELSE LET line == lns[n]
             line_num == n - 1
         IN  IF line.kind = "blank"
             THEN LoadFullLoop(lns, n + 1, utterances)
             ELSE IF line.kind = "tag"
             THEN LoadFullLoop(lns, n + 1,
                      Append(utterances,
                             [index |-> line_num, speaker |-> line.speaker,
                              text |-> line.text]))
             ELSE IF utterances # << >>
             THEN LoadFullLoop(lns, n + 1,
                      [utterances EXCEPT ![Len(utterances)].text =
                                             @ \o << " " >> \o line.text])
             ELSE LoadFullLoop(lns, n + 1, utterances)

\* The final print reads utterances[0]: an empty log raises IndexError.
load_full_transcript(lns) ==
    LET utterances == LoadFullLoop(lns, 1, << >>) IN
    IF utterances = << >> THEN Raised ELSE Returned(utterances)

RECURSIVE ExtractLoop(_, _, _, _)
ExtractLoop(lns, n, current_index, moderator_utts) ==
    IF n > Len(lns)
    THEN [moderator_utterances |-> moderator_utts,
          total_utterances |-> current_index + 1]
    ELSE IF lns[n].kind = "tag"
    THEN ExtractLoop(lns, n + 1, current_index + 1,
             IF lns[n].speaker = moderator_speaker_id
             THEN Append(moderator_utts,
                         [index |-> current_index + 1, text |-> lns[n].text])
             ELSE moderator_utts)
    ELSE ExtractLoop(lns, n + 1, current_index, moderator_utts)

\* The final prints divide by total_utterances and read
\* moderator_utterances[0]: both raise when there is nothing to report.
extract_moderator_with_indices(lns) ==
    LET r == ExtractLoop(lns, 1, -1, << >>) IN
    IF r.total_utterances = 0 \/ r.moderator_utterances = << >> THEN Raised
    ELSE Returned(r.moderator_utterances)

\* MinutesGenerator.extract_top_segment: the utterances whose index lies in
\* [start_index, end_index].
extract_top_segment(utterances, start_index, end_index) ==
    SelectSeq(utterances,
              LAMBDA u : start_index <= u.index /\ u.index <= end_index)

\* TranscriptSegmenter.load_transcript: as the sequential loader, without
\* line_num.
RECURSIVE SegmenterLoadFrom(_, _)
SegmenterLoadFrom(lns, n) ==
    IF n > Len(lns) THEN << >>
    ELSE (IF lns[n].kind = "tag" /\ lns[n].text # << >>
          THEN << [speaker |-> lns[n].speaker, text |-> lns[n].text] >>
          ELSE << >>)
             \o SegmenterLoadFrom(lns, n + 1)

segmenter_load_transcript(lns) == SegmenterLoadFrom(lns, 1)

InitLoader ==
    /\ transcript_lines \in Transcripts
    /\ full_utterances = NoResult
    /\ moderator_utterances = NoResult
    /\ seq_utterances = NoResult
    /\ seg_utterances = NoResult

LoadFullTranscript ==
    /\ full_utterances = NoResult
    /\ full_utterances' = load_full_transcript(transcript_lines)
    /\ UNCHANGED << transcript_lines, moderator_utterances, seq_utterances,
                    seg_utterances >>
    /\ UNCHANGED << seqVars, modVars, recVars, mergeVars,
                    chunkVars, assignVars, smoothVars, jobVars >>

ExtractModeratorWithIndices ==
    /\ moderator_utterances = NoResult
    /\ moderator_utterances' = extract_moderator_with_indices(transcript_lines)
    /\ UNCHANGED << transcript_lines, full_utterances, seq_utterances,
                    seg_utterances >>
    /\ UNCHANGED << seqVars, modVars, recVars, mergeVars,
                    chunkVars, assignVars, smoothVars, jobVars >>

LoadTranscript ==
    /\ seq_utterances = NoResult
    /\ seq_utterances' = Returned(load_transcript(transcript_lines))
    /\ UNCHANGED << transcript_lines, full_utterances, moderator_utterances,
                    seg_utterances >>
    /\ UNCHANGED << seqVars, modVars, recVars, mergeVars,
                    chunkVars, assignVars, smoothVars, jobVars >>

SegmenterLoadTranscript ==
    /\ seg_utterances = NoResult
    /\ seg_utterances' = Returned(segmenter_load_transcript(transcript_lines))
    /\ UNCHANGED << transcript_lines, full_utterances, moderator_utterances,
                    seq_utterances >>
    /\ UNCHANGED << seqVars, modVars, recVars, mergeVars,
                    chunkVars, assignVars, smoothVars, jobVars >>

InitLoaderOnly ==
    /\ InitLoader
    /\ InitSequentialIdle /\ InitModeratorIdle /\ InitRecoverIdle
    /\ InitMergeIdle
    /\ InitOthersIdle

NextLoader ==
    \/ LoadFullTranscript
    \/ ExtractModeratorWithIndices
    \/ LoadTranscript
    \/ SegmenterLoadTranscript

SpecLoader == InitLoaderOnly /\ [][NextLoader]_vars

----------------------------------------------------------------------------
(* Claims about the transcript loaders *)

\* Positions of the lines that carry a speaker tag: the utterances.
TagPositions(lns) == { p \in 1..Len(lns) : lns[p].kind = "tag" }

\* Position of the k-th line (k >= 1) among the positions P.
KthOf(P, k) == CHOOSE p \in P : Cardinality({ q \in P : q <= p }) = k

\* Position of the first tagged line after p, or one past the last line.
NextTagAfter(lns, p) ==
    LET later == { q \in TagPositions(lns) : q > p } IN
    IF later = {} THEN Len(lns) + 1
    ELSE CHOOSE m \in later : \A x \in later : m <= x

\* The untagged non-blank lines from..to, each preceded by a space.
RECURSIVE Continuations(_, _, _)
Continuations(lns, from, to) ==
    IF from > to THEN << >>
    ELSE (IF lns[from].kind = "text" THEN << " " >> \o lns[from].text
          ELSE << >>)
             \o Continuations(lns, from + 1, to)

\* The text of the utterance tagged at p with its continuation lines.
TextWithContinuations(lns, p) ==
    lns[p].text \o Continuations(lns, p + 1, NextTagAfter(lns, p) - 1)

\* C13: the utterance log carries indices that are unique, strictly increasing
\* and contiguous from 0: entry k of load_full_transcript's log has index k,
\* and an entry of the moderator log has the position of its utterance among
\* all utterances; blank and untagged lines make no difference.
C13_IndicesContiguousFromZero ==
    /\ full_utterances.status = "returned" =>
           \A k \in 1..Len(full_utterances.value) :
               full_utterances.value[k].index = k - 1
    /\ moderator_utterances.status = "returned" =>
           LET tags == TagPositions(transcript_lines)
               mine == { p \in tags :
                           transcript_lines[p].speaker = moderator_speaker_id }
           IN  /\ Len(moderator_utterances.value) = Cardinality(mine)
               /\ \A k \in 1..Len(moderator_utterances.value) :
                      moderator_utterances.value[k].index =
                          Cardinality({ q \in tags : q < KthOf(mine, k) })

\* C14: the loaders that feed the segmentation append every untagged non-blank
\* line, space-joined, to the text of the utterance before it: the text of
\* utterance k is the text of the k-th tagged line followed by its
\* continuation lines, and nothing is dropped.
C14_ContinuationLinesAreAppended ==
    LET tags == TagPositions(transcript_lines) IN
    /\ seq_utterances.status = "returned" =>
           /\ Len(seq_utterances.value) = Cardinality(tags)
           /\ \A k \in 1..Len(seq_utterances.value) :
                  seq_utterances.value[k].text =
                      TextWithContinuations(transcript_lines, KthOf(tags, k))
    /\ seg_utterances.status = "returned" =>
           /\ Len(seg_utterances.value) = Cardinality(tags)
           /\ \A k \in 1..Len(seg_utterances.value) :
                  seg_utterances.value[k].text =
                      TextWithContinuations(transcript_lines, KthOf(tags, k))

\* Number of tagged lines up to and including position p: the place of the
\* utterance of line p in a log of all utterances.
RankOf(lns, p) == Cardinality({ q \in TagPositions(lns) : q <= p })

\* C28: a moderator utterance carries the index load_full_transcript gives to
\* the utterance of the same line, whatever blank or untagged lines the file
\* holds, so extract_top_segment between the indices of two moderator
\* utterances yields exactly the utterances from the one line to the other.
C28_ModeratorIndicesSelectTheLines ==
    (full_utterances.status = "returned"
       /\ moderator_utterances.status = "returned") =>
        LET lns == transcript_lines
            mine == { p \in TagPositions(lns) :
                        lns[p].speaker = moderator_speaker_id }
            mods == moderator_utterances.value
            full == full_utterances.value
        IN  /\ \A k \in 1..Len(mods) :
                   mods[k].index = full[RankOf(lns, KthOf(mine, k))].index
            /\ \A k1, k2 \in 1..Len(mods) :
                   k1 <= k2 =>
                       extract_top_segment(full, mods[k1].index, mods[k2].index)
                           = SubSeq(full, RankOf(lns, KthOf(mine, k1)),
                                    RankOf(lns, KthOf(mine, k2)))

----------------------------------------------------------------------------
(* Same-speaker merging: combine_consecutive_speakers and the loop that       *)
(* builds the transcript in transcribe_audio                                  *)

\* Utterance lists as load_transcript returns them: the text is never empty.
UtteranceChoices == [speaker : Speakers, text : {TextA, TextZ}]

UtteranceLists == SeqsUpTo(UtteranceChoices, MaxUtterances)

\* result["segments"]: speaker and stripped text (which may be empty); the
\* segment at position k starts at time 2k and ends at 2k + 1.
SegmentLists ==
    { [k \in 1..Len(sg) |-> [speaker |-> sg[k].speaker, text |-> sg[k].text,
                             start |-> 2 * k, end |-> 2 * k + 1]] :
        sg \in SeqsUpTo([speaker : Speakers, text : {<< >>, TextA, TextZ}],
                        MaxUtterances) }

\* The loop over result["segments"]: empty texts are skipped, a segment of the
\* speaker of the last entry extends that entry, any other starts a new one.
RECURSIVE MergeSegments(_, _)
MergeSegments(segments, acc) ==
    IF segments = << >> THEN acc
    ELSE LET segment == Head(segments) IN
         IF segment.text = << >> THEN MergeSegments(Tail(segments), acc)
         ELSE IF acc # << >> /\ acc[Len(acc)].speaker = segment.speaker
         THEN MergeSegments(Tail(segments),
                  [acc EXCEPT ![Len(acc)].text = @ \o << " " >> \o segment.text,
                              ![Len(acc)].end = segment.end])
         ELSE MergeSegments(Tail(segments), Append(acc, segment))

InitMerge ==
    /\ \/ utterances_in \in UtteranceLists /\ segments_in = << >>
       \/ utterances_in = << >> /\ segments_in \in SegmentLists
    /\ merged = NoResult
    /\ remerged = NoResult
    /\ transcript = NoResult

CombineConsecutiveSpeakers ==
    /\ merged = NoResult
    /\ merged' = Returned(combine_consecutive_speakers(utterances_in))
    /\ UNCHANGED << utterances_in, segments_in, remerged, transcript >>
    /\ UNCHANGED << seqVars, modVars, recVars, loadVars,
                    chunkVars, assignVars, smoothVars, jobVars >>

\* combine_consecutive_speakers called on the list it returned.
CombineAgain ==
    /\ merged # NoResult
    /\ remerged = NoResult
    /\ remerged' = Returned(combine_consecutive_speakers(merged.value))
    /\ UNCHANGED << utterances_in, segments_in, merged, transcript >>
    /\ UNCHANGED << seqVars, modVars, recVars, loadVars,
                    chunkVars, assignVars, smoothVars, jobVars >>

TranscribeMerge ==
    /\ transcript = NoResult
    /\ transcript' = Returned(MergeSegments(segments_in, << >>))
    /\ UNCHANGED << utterances_in, segments_in, merged, remerged >>
    /\ UNCHANGED << seqVars, modVars, recVars, loadVars,
                    chunkVars, assignVars, smoothVars, jobVars >>

InitMergeOnly ==
    /\ InitMerge
    /\ InitSequentialIdle /\ InitModeratorIdle /\ InitRecoverIdle
    /\ InitLoaderIdle
    /\ InitOthersIdle

NextMerge ==
    \/ CombineConsecutiveSpeakers
    \/ CombineAgain
    \/ TranscribeMerge

SpecMerge == InitMergeOnly /\ [][NextMerge]_vars

----------------------------------------------------------------------------
(* Claims about same-speaker merging *)

NoAdjacentSameSpeaker(list) ==
    \A k \in 1..(Len(list) - 1) : list[k].speaker # list[k + 1].speaker

\* The texts of a list in order, joined by single spaces.
RECURSIVE JoinTexts(_)
JoinTexts(list) ==
    IF list = << >> THEN << >>
    ELSE IF Len(list) = 1 THEN list[1].text
    ELSE list[1].text \o << " " >> \o JoinTexts(Tail(list))

\* C15: the output of combine_consecutive_speakers has no two consecutive
\* entries of the same speaker, its texts joined by spaces are the input texts
\* joined by spaces, and combining the output again changes nothing.  The
\* merge loop of transcribe_audio gives the same for the non-empty segments.
C15_MergeKeepsTextAndAlternates ==
    /\ merged.status = "returned" =>
           /\ NoAdjacentSameSpeaker(merged.value)
           /\ JoinTexts(merged.value) = JoinTexts(utterances_in)
    /\ remerged.status = "returned" => remerged.value = merged.value
    /\ transcript.status = "returned" =>
           /\ NoAdjacentSameSpeaker(transcript.value)
           /\ JoinTexts(transcript.value) =
                  JoinTexts(SelectSeq(segments_in, LAMBDA g : g.text # << >>))

C15_Witness ==
    /\ Len(utterances_in) = 3
    /\ merged.status = "returned" /\ Len(merged.value) = 2
    /\ merged.value[2].text = TextZ \o << " " >> \o TextA
    /\ remerged.status = "returned"

----------------------------------------------------------------------------
(* The embedding path of scripts/segment_transcript.py:                      *)
(* TranscriptSegmenter.create_chunks, assign_topics and smooth_assignments   *)

\* utterances[i : i + chunk_size] of a list of M utterances; an utterance is
\* named by its Python index.
Slice(M, i, size) == [k \in 1..(Min(i + size, M) - i) |-> i + k - 1]

\* for i in range(0, len(utterances), step), with chunk_step for step
RECURSIVE ChunkLoop(_, _, _, _, _)
ChunkLoop(M, size, chunk_step, i, chunks) ==
    IF i >= M THEN chunks
    ELSE LET chunk_utterances == Slice(M, i, size) IN
         IF chunk_utterances = << >>
         THEN ChunkLoop(M, size, chunk_step, i + chunk_step, chunks)
         ELSE ChunkLoop(M, size, chunk_step, i + chunk_step,
                  Append(chunks, [start_idx |-> i,
                                  end_idx |-> Min(i + size, M),
                                  members |-> chunk_utterances]))

\* range() raises ValueError for chunk_step 0 and is empty for a negative chunk_step.
create_chunks(M, size, ov) ==
    LET chunk_step == size - ov IN
    IF chunk_step = 0 THEN Raised
    ELSE IF chunk_step < 0 THEN Returned(<< >>)
    ELSE Returned(ChunkLoop(M, size, chunk_step, 0, << >>))

InitChunk ==
    /\ n_utterances \in 0..MaxChunkInput
    /\ chunk_size \in 1..MaxChunkSize
    /\ overlap \in 0..chunk_size
    /\ chunks_out = NoResult

CreateChunks ==
    /\ chunks_out = NoResult
    /\ chunks_out' = create_chunks(n_utterances, chunk_size, overlap)
    /\ UNCHANGED << n_utterances, chunk_size, overlap >>
    /\ UNCHANGED << seqVars, modVars, recVars, loadVars, mergeVars,
                    assignVars, smoothVars, jobVars >>

InitOlderIdle ==
    /\ InitSequentialIdle /\ InitModeratorIdle /\ InitRecoverIdle
    /\ InitLoaderIdle /\ InitMergeIdle

InitChunkOnly ==
    /\ InitChunk
    /\ InitOlderIdle
    /\ InitAssignIdle /\ InitSmoothIdle /\ InitJobsIdle

NextChunk == CreateChunks

SpecChunk == InitChunkOnly /\ [][NextChunk]_vars

\* Similarity scores in tenths: 0.2, 0.3 and 0.4 around the default threshold.
ScoreChoices == { 2, 3, 4 }

\* similarity_threshold = 0.3, in tenths.
similarity_threshold == 3

\* sim_scores.max()
RowMax(sim_scores) ==
    CHOOSE m \in { sim_scores[k] : k \in 1..Len(sim_scores) } :
        \A k \in 1..Len(sim_scores) : sim_scores[k] <= m

\* sim_scores.argmax(): the first index that holds the maximum.
ArgMax(sim_scores) ==
    LET best == { k \in 1..Len(sim_scores) :
                    sim_scores[k] = RowMax(sim_scores) }
    IN  (CHOOSE m \in best : \A x \in best : m <= x) - 1

AssignLoopCarriesBest(sims, i, assignments) == [k \in 1..Len(sims) |-> IF RowMax(sims[k]) < similarity_threshold /\ k > 1 THEN ArgMax(sims[k - 1]) ELSE ArgMax(sims[k])]

\* for i, sim_scores in enumerate(similarities): row i + 1 here.
RECURSIVE AssignLoop(_, _, _)
AssignLoop(sims, i, assignments) ==
    IF i >= Len(sims) THEN assignments
    ELSE LET sim_scores == sims[i + 1]
             max_score == RowMax(sim_scores)
             best_topic == ArgMax(sim_scores)
         IN  IF max_score < similarity_threshold /\ i > 0
             THEN AssignLoop(sims, i + 1,
                      Append(assignments, assignments[Len(assignments)]))
             ELSE AssignLoop(sims, i + 1, Append(assignments, best_topic))

assign_topics(sims) == AssignLoop(sims, 0, << >>)

\* One row of scores per chunk, one score per topic.
SimilarityMatrices ==
    UNION { [1..c -> [1..n -> ScoreChoices]] :
              c \in 1..MaxScoredChunks, n \in 1..MaxScoredTopics }

InitAssign ==
    /\ similarities \in SimilarityMatrices
    /\ assignments_out = NoResult

AssignTopics ==
    /\ assignments_out = NoResult
    /\ assignments_out' = Returned(assign_topics(similarities))
    /\ UNCHANGED similarities
    /\ UNCHANGED << seqVars, modVars, recVars, loadVars, mergeVars,
                    chunkVars, smoothVars, jobVars >>

InitAssignOnly ==
    /\ InitAssign
    /\ InitOlderIdle
    /\ InitChunkIdle /\ InitSmoothIdle /\ InitJobsIdle

NextAssign == AssignTopics

SpecAssign == InitAssignOnly /\ [][NextAssign]_vars

\* The value of rank size // 2 among the values of a window.
MedianOf(w) ==
    LET h == Len(w) \div 2 IN
    CHOOSE v \in { w[k] : k \in 1..Len(w) } :
        /\ Cardinality({ k \in 1..Len(w) : w[k] < v }) <= h
        /\ Cardinality({ k \in 1..Len(w) : w[k] <= v }) > h

\* scipy.ndimage.median_filter(a, size=size, mode="nearest"): the window of
\* size positions around each position, positions beyond an end taking the
\* value at that end.
median_filter(a, size) ==
    [i \in 1..Len(a) |->
        MedianOf([k \in 1..size |->
                     a[Max(1, Min(Len(a), i - (size \div 2) + k - 1))]])]

\* The inner while: the length of the run that starts at Python index i.
RECURSIVE CountRun(_, _, _)
CountRun(smoothed, i, segment_length) ==
    IF /\ i + segment_length < Len(smoothed)
       /\ smoothed[i + segment_length + 1] = smoothed[i + 1]
    THEN CountRun(smoothed, i, segment_length + 1)
    ELSE segment_length

\* [v] * n
Repeat(v, n) == [k \in 1..n |-> v]

MergeRunsKeepsAll(smoothed, L, i, final) == smoothed

MergeRunsFromFiltered(smoothed, L, i, final) == [k \in 1..Len(smoothed) |-> IF \E a \in 2..k : /\ smoothed[a] # smoothed[a - 1] /\ (\A x \in a..k : smoothed[x] = smoothed[a]) /\ CountRun(smoothed, a - 1, 1) < L THEN smoothed[(CHOOSE a \in 2..k : smoothed[a] # smoothed[a - 1] /\ \A x \in a..k : smoothed[x] = smoothed[a]) - 1] ELSE smoothed[k]]

\* The outer while: run by run, a short run that has a predecessor repeats
\* the last value written.
RECURSIVE MergeRuns(_, _, _, _)
MergeRuns(smoothed, L, i, final) ==
    IF i >= Len(smoothed) THEN final
    ELSE LET current_topic == smoothed[i + 1]
             segment_length == CountRun(smoothed, i, 1)
         IN  IF segment_length < L /\ final # << >>
             THEN MergeRuns(smoothed, L, i + segment_length,
                      final \o Repeat(final[Len(final)], segment_length))
             ELSE MergeRuns(smoothed, L, i + segment_length,
                      final \o Repeat(current_topic, segment_length))

smooth_assignments(a, size, L) ==
    MergeRuns(median_filter(a, size), L, 0, << >>)

\* Odd windows, as the smoother is meant to be used.
WindowSizes == { 1, 3 }

InitSmooth ==
    /\ raw_assignments \in
           UNION { [1..c -> 0..(MaxTopicValues - 1)] : c \in 1..MaxAssignments }
    /\ window_size \in WindowSizes
    /\ min_segment_length \in 1..MaxMinRun
    /\ smoothed_out = NoResult

SmoothAssignments ==
    /\ smoothed_out = NoResult
    /\ smoothed_out' = Returned(smooth_assignments(raw_assignments, window_size,
                                                   min_segment_length))
    /\ UNCHANGED << raw_assignments, window_size, min_segment_length >>
    /\ UNCHANGED << seqVars, modVars, recVars, loadVars, mergeVars,
                    chunkVars, assignVars, jobVars >>

InitSmoothOnly ==
    /\ InitSmooth
    /\ InitOlderIdle
    /\ InitChunkIdle /\ InitAssignIdle /\ InitJobsIdle

NextSmooth == SmoothAssignments

SpecSmooth == InitSmoothOnly /\ [][NextSmooth]_vars

----------------------------------------------------------------------------
(* Claims about the embedding path *)

\* C22: for 0 <= o < W, chunk k starts at k*(W-o) and ends at
\* min(start + W, M), for every k with k*(W-o) < M, and every chunk except
\* the final one holds exactly W utterances.
C22_OnlyFinalChunkIsShort ==
    (chunks_out.status = "returned" /\ overlap < chunk_size) =>
        LET chunks == chunks_out.value
            chunk_step == chunk_size - overlap
            K == { k \in 0..n_utterances : k * chunk_step < n_utterances }
        IN  /\ Len(chunks) = Cardinality(K)
            /\ \A k \in K :
                   /\ chunks[k + 1].start_idx = k * chunk_step
                   /\ chunks[k + 1].end_idx =
                          Min(k * chunk_step + chunk_size, n_utterances)
                   /\ (k + 1 < Len(chunks)) =>
                          Len(chunks[k + 1].members) = chunk_size

\* The topic of the highest score of row i, the first one among equals.
BestTopic(i) ==
    CHOOSE t \in 0..(Len(similarities[i]) - 1) :
        /\ \A u \in 0..(Len(similarities[i]) - 1) :
               similarities[i][u + 1] <= similarities[i][t + 1]
        /\ \A u \in 0..(t - 1) :
               similarities[i][u + 1] < similarities[i][t + 1]

\* C23: chunk 0 gets its highest-similarity topic whatever the score; a later
\* chunk gets the topic assigned to the chunk before it when its best score is
\* below the threshold and its highest-similarity topic otherwise; every
\* assignment is a topic index in [0, N-1].
C23_AssignmentRule ==
    (assignments_out.status = "returned") =>
        LET a == assignments_out.value IN
        /\ Len(a) = Len(similarities)
        /\ a[1] = BestTopic(1)
        /\ \A i \in 2..Len(a) :
               a[i] = IF similarities[i][BestTopic(i) + 1] < similarity_threshold
                      THEN a[i - 1]
                      ELSE BestTopic(i)
        /\ \A i \in 1..Len(a) : a[i] \in 0..(Len(similarities[i]) - 1)

\* Three chunks, the first below the threshold and kept, the second confident
\* for another topic, the third below the threshold and carried, although its
\* own best topic is a different one.
C23_Witness ==
    /\ assignments_out.status = "returned"
    /\ Len(similarities) = 3
    /\ similarities[1][BestTopic(1) + 1] < similarity_threshold
    /\ similarities[3][BestTopic(3) + 1] < similarity_threshold
    /\ assignments_out.value[2] # assignments_out.value[1]
    /\ assignments_out.value[3] = assignments_out.value[2]
    /\ BestTopic(3) # assignments_out.value[3]

\* The maximal runs of equal values of a sequence, as pairs << first, last >>.
Runs(q) ==
    { r \in (1..Len(q)) \X (1..Len(q)) :
        /\ r[1] <= r[2]
        /\ \A x \in r[1]..r[2] : q[x] = q[r[1]]
        /\ (r[1] > 1 => q[r[1] - 1] # q[r[1]])
        /\ (r[2] < Len(q) => q[r[2] + 1] # q[r[2]]) }

RunLen(r) == r[2] - r[1] + 1

Filtered == median_filter(raw_assignments, window_size)

ShortRuns ==
    { r \in Runs(Filtered) : r[1] > 1 /\ RunLen(r) < min_segment_length }

\* C25 as stated: a short run that is not the first takes the value of the
\* run right before it in the median-filtered sequence, also when that run
\* was itself short.
C25_ShortRunTakesFilteredPredecessor ==
    (smoothed_out.status = "returned") =>
        \A r \in ShortRuns :
            \A x \in r[1]..r[2] : smoothed_out.value[x] = Filtered[r[1] - 1]

\* The run of the filtered sequence that was kept last at or before position
\* x: the first run, or a run of length >= L.
LastKeptRun(x) ==
    CHOOSE r \in Runs(Filtered) \ ShortRuns :
        /\ r[1] <= x
        /\ \A other \in Runs(Filtered) \ ShortRuns :
               other[1] <= x => other[1] <= r[1]

\* C25 (amended): a short run that is not the first takes the value the
\* output holds right before it, which is the value of the nearest run before
\* it that was kept (the first run, or a run of length >= L); kept runs keep
\* their own value.
C25_ShortRunTakesLastKeptValue ==
    (smoothed_out.status = "returned") =>
        /\ \A r \in ShortRuns :
               \A x \in r[1]..r[2] :
                   /\ smoothed_out.value[x] = smoothed_out.value[r[1] - 1]
                   /\ smoothed_out.value[x] = Filtered[LastKeptRun(x)[1]]
        /\ \A r \in Runs(Filtered) \ ShortRuns :
               \A x \in r[1]..r[2] : smoothed_out.value[x] = Filtered[x]

\* Two short runs in a row: the second takes the value the first one took,
\* not the value the first one had in the filtered sequence.
C25_Witness ==
    /\ smoothed_out.status = "returned"
    /\ \E r1, r2 \in ShortRuns :
           /\ r1[2] + 1 = r2[1]
           /\ smoothed_out.value[r2[1]] # Filtered[r1[1]]
           /\ smoothed_out.value[r2[1]] = smoothed_out.value[r1[1]]

----------------------------------------------------------------------------
(* The transcription jobs of app/backend/main.py: start_transcription,       *)
(* cleanup_old_jobs and the background task run_transcription                *)

\* JOB_MAX_COUNT: the default, and a store configured to hold one job.
JobMaxCountChoices == { DefaultJobMaxCount, 1 }

\* Seconds that pass between two readings of time.time() in the model: a job
\* is older than JOB_MAX_AGE_SECONDS after two of them.
TickSeconds == 3601

\* The progress values transcribe_audio reports through progress_callback.
ProgressSteps == << 5, 15, 45, 65, 85, 95 >>

\* job_id in jobs
HasJob(js, job_id) == \E k \in 1..Len(js) : js[k].job_id = job_id

JobOf(js, job_id) == js[CHOOSE k \in 1..Len(js) : js[k].job_id = job_id]

\* jobs[job_id] = {...} in start_transcription; the message text is left out.
NewJob(job_id, t) ==
    [job_id |-> job_id, created_at |-> t, status |-> "pending", progress |-> 0,
     transcript |-> FALSE, error |-> FALSE, audio_path |-> FALSE]

\* jobs[job_id]["status"] = status; jobs[job_id]["progress"] = progress
SetStatus(js, job_id, status, progress) ==
    [k \in 1..Len(js) |->
        IF js[k].job_id = job_id
        THEN [js[k] EXCEPT !.status = status, !.progress = progress]
        ELSE js[k]]

\* cleanup_old_jobs: every job older than JOB_MAX_AGE_SECONDS goes, then the
\* oldest ones until no more than JOB_MAX_COUNT are left.
cleanup_old_jobs(js, t, max_count) ==
    LET young == SelectSeq(js, LAMBDA job :
                     ~(t - job.created_at > DefaultJobMaxAgeSeconds))
    IN  IF Len(young) > max_count
        THEN SubSeq(young, Len(young) - max_count + 1, Len(young))
        ELSE young

InitJobs ==
    /\ jobs = << >>
    /\ job_max_count \in JobMaxCountChoices
    /\ now = 0
    /\ uploads = 0
    /\ tasks = << >>
    /\ statusLog = << >>
    /\ transcribed = {}
    /\ keyErrors = {}

OlderUnchanged ==
    UNCHANGED << seqVars, modVars, recVars, loadVars, mergeVars,
                 chunkVars, assignVars, smoothVars >>

\* time.time() moves on.
Tick ==
    /\ now < MaxTicks * TickSeconds
    /\ now' = now + TickSeconds
    /\ UNCHANGED << jobs, job_max_count, uploads, tasks, statusLog,
                    transcribed, keyErrors >>
    /\ OlderUnchanged

\* start_transcription from the creation of the job: the job is stored,
\* cleanup_old_jobs runs, the background task is added.
StartTranscription ==
    /\ uploads < MaxUploads
    /\ LET job_id == uploads + 1 IN
       /\ uploads' = job_id
       /\ jobs' = cleanup_old_jobs(Append(jobs, NewJob(job_id, now)), now,
                                   job_max_count)
       /\ tasks' = Append(tasks, [pc |-> "queued", callbacks |-> 0])
       /\ statusLog' = Append(statusLog, << "pending" >>)
    /\ UNCHANGED << job_max_count, now, transcribed, keyErrors >>
    /\ OlderUnchanged

\* The background task of job_id was added and stands at position p.
TaskAt(job_id, p) == job_id <= uploads /\ tasks[job_id].pc = p

\* The task moves to position p; with a KeyError it moves to the except block.
TaskMoves(job_id, p, key_error) ==
    /\ tasks' = [tasks EXCEPT ![job_id].pc = IF key_error THEN "except" ELSE p]
    /\ keyErrors' = IF key_error THEN keyErrors \cup {job_id} ELSE keyErrors

\* run_transcription, lines 458-460.
TaskBegins(job_id) ==
    /\ TaskAt(job_id, "queued")
    /\ IF HasJob(jobs, job_id)
       THEN /\ jobs' = SetStatus(jobs, job_id, "processing", 10)
            /\ statusLog' = [statusLog EXCEPT ![job_id] = Append(@, "processing")]
            /\ TaskMoves(job_id, "transcribing", FALSE)
       ELSE /\ TaskMoves(job_id, "transcribing", TRUE)
            /\ UNCHANGED << jobs, statusLog >>
    /\ UNCHANGED << job_max_count, now, uploads, transcribed >>
    /\ OlderUnchanged

\* progress_callback, called by transcribe_audio: a KeyError leaves
\* transcribe_audio and reaches the except block of run_transcription.
ProgressCallback(job_id) ==
    /\ TaskAt(job_id, "transcribing")
    /\ tasks[job_id].callbacks < Len(ProgressSteps)
    /\ IF HasJob(jobs, job_id)
       THEN /\ jobs' = SetStatus(jobs, job_id, JobOf(jobs, job_id).status,
                                 ProgressSteps[tasks[job_id].callbacks + 1])
            /\ tasks' = [tasks EXCEPT ![job_id].callbacks = @ + 1]
            /\ UNCHANGED keyErrors
       ELSE /\ TaskMoves(job_id, "transcribing", TRUE)
            /\ UNCHANGED jobs
    /\ UNCHANGED << job_max_count, now, uploads, statusLog, transcribed >>
    /\ OlderUnchanged

\* transcribe_audio raises (audio that cannot be loaded, a model error).
TranscribeRaises(job_id) ==
    /\ TaskAt(job_id, "transcribing")
    /\ tasks' = [tasks EXCEPT ![job_id].pc = "except"]
    /\ UNCHANGED << jobs, job_max_count, now, uploads, statusLog, transcribed,
                    keyErrors >>
    /\ OlderUnchanged

\* transcribe_audio returns its TranscriptionResult.
TranscribeReturns(job_id) ==
    /\ TaskAt(job_id, "transcribing")
    /\ tasks[job_id].callbacks = Len(ProgressSteps)
    /\ tasks' = [tasks EXCEPT ![job_id].pc = "returned"]
    /\ transcribed' = transcribed \cup {job_id}
    /\ UNCHANGED << jobs, job_max_count, now, uploads, statusLog, keyErrors >>
    /\ OlderUnchanged

\* run_transcription, lines 472-477: the result is stored.
StoreResult(job_id) ==
    /\ TaskAt(job_id, "returned")
    /\ IF HasJob(jobs, job_id)
       THEN /\ jobs' = [k \in 1..Len(jobs) |->
                           IF jobs[k].job_id = job_id
                           THEN [jobs[k] EXCEPT !.status = "completed",
                                                !.progress = 100,
                                                !.transcript = TRUE,
                                                !.audio_path = TRUE]
                           ELSE jobs[k]]
            /\ statusLog' = [statusLog EXCEPT ![job_id] = Append(@, "completed")]
            /\ TaskMoves(job_id, "stored", FALSE)
       ELSE /\ TaskMoves(job_id, "stored", TRUE)
            /\ UNCHANGED << jobs, statusLog >>
    /\ UNCHANGED << job_max_count, now, uploads, transcribed >>
    /\ OlderUnchanged

\* run_transcription, line 478: len(transcript) of a TranscriptionResult, a
\* dataclass without __len__, raises TypeError inside the try block.
LogCompleted(job_id) ==
    /\ TaskAt(job_id, "stored")
    /\ tasks' = [tasks EXCEPT ![job_id].pc = "except"]
    /\ UNCHANGED << jobs, job_max_count, now, uploads, statusLog, transcribed,
                    keyErrors >>
    /\ OlderUnchanged

\* run_transcription, lines 480-484: the except block; a KeyError in it
\* leaves the task.
HandleException(job_id) ==
    /\ TaskAt(job_id, "except")
    /\ IF HasJob(jobs, job_id)
       THEN /\ jobs' = [k \in 1..Len(jobs) |->
                           IF jobs[k].job_id = job_id
                           THEN [jobs[k] EXCEPT !.status = "failed",
                                                !.error = TRUE]
                           ELSE jobs[k]]
            /\ statusLog' = [statusLog EXCEPT ![job_id] = Append(@, "failed")]
            /\ tasks' = [tasks EXCEPT ![job_id].pc = "done"]
            /\ UNCHANGED keyErrors
       ELSE /\ tasks' = [tasks EXCEPT ![job_id].pc = "crashed"]
            /\ keyErrors' = keyErrors \cup {job_id}
            /\ UNCHANGED << jobs, statusLog >>
    /\ UNCHANGED << job_max_count, now, uploads, transcribed >>
    /\ OlderUnchanged

InitJobsOnly ==
    /\ InitJobs
    /\ InitOlderIdle
    /\ InitChunkIdle /\ InitAssignIdle /\ InitSmoothIdle

NextJobs ==
    \/ Tick
    \/ StartTranscription
    \/ \E job_id \in 1..MaxUploads :
          \/ TaskBegins(job_id)
          \/ ProgressCallback(job_id)
          \/ TranscribeRaises(job_id)
          \/ TranscribeReturns(job_id)
          \/ StoreResult(job_id)
          \/ LogCompleted(job_id)
          \/ HandleException(job_id)

SpecJobs == InitJobsOnly /\ [][NextJobs]_vars

----------------------------------------------------------------------------
(* Claims about the transcription jobs *)

LastStatus(job_id) == statusLog[job_id][Len(statusLog[job_id])]

TaskEnded(job_id) == tasks[job_id].pc \in { "done", "crashed" }

\* C29: the status of a job only moves pending -> processing -> completed or
\* failed; when transcribe_audio returned without raising the job ends
\* completed; a completed or failed job never changes its status again.
C29_StatusLifecycle ==
    \A job_id \in 1..uploads :
        /\ statusLog[job_id] \in
               { << "pending" >>,
                 << "pending", "processing" >>,
                 << "pending", "processing", "completed" >>,
                 << "pending", "processing", "failed" >> }
        /\ (TaskEnded(job_id) /\ job_id \in transcribed
                /\ HasJob(jobs, job_id)) =>
               JobOf(jobs, job_id).status = "completed"

\* C30: whatever the interleaving of uploads and background tasks, a job that
\* is gone from the map was completed or failed when cleanup removed it, no
\* task meets a KeyError on jobs[job_id], and a task that ended left a
\* terminal status behind.
C30_CleanupSparesRunningJobs ==
    \A job_id \in 1..uploads :
        /\ ~HasJob(jobs, job_id) =>
               LastStatus(job_id) \in { "completed", "failed" }
        /\ job_id \notin keyErrors
        /\ TaskEnded(job_id) =>
               /\ TaskAt(job_id, "done")
               /\ LastStatus(job_id) \in { "completed", "failed" }

====
